---------------------------- MODULE Spec2Model ----------------------------
(***************************************************************************)
(* Gatekeeping bot of the Almaty Meetups group: the two sqlite tables      *)
(* (requests, users), the /start conversation, the moderator's Approve /   *)
(* Decline presses, the broadcast and the hourly expiry sweep, each        *)
(* handler modelled as one atomic step with the outcome of every call to   *)
(* the Telegram API chosen nondeterministically.                           *)
(***************************************************************************)
EXTENDS Integers, Sequences, FiniteSets, TLC

(***************************************************************************)
(* Bounds of the model.                                                    *)
(***************************************************************************)
\* AUTOINCREMENT ids handed out by the requests table are capped here.
MaxRequests == 2
\* The clock stops at this hour.
MaxTime == 25
\* Message ids handed out by the moderator channel are capped here.
MaxMessages == 1
\* Decision messages counted per request.
MaxDecisions == 2
\* The hour-by-hour clock of the expiry sweep stops at this hour.
MaxHour == 26
\* Message ids handed out by the moderator channel where one request is
\* followed through its postings.
MaxPostings == 2
\* Request ids written into button payloads go up to this number.
MaxPayloadId == 120

\* Telegram identities of the people who talk to the bot.
Applicants == {101}
\* (username, first_name, last_name) triples a caller can present.
Profiles ==
    { [username |-> "alice", first_name |-> "Alice", last_name |-> "A"],
      [username |-> "NULL", first_name |-> "Al", last_name |-> "NULL"] }
\* Category buttons the applicants press.
PressedKeys == {"invited"}
\* Free texts an applicant types.
Answers == {"alice123"}

(***************************************************************************)
(* Values of the program.                                                  *)
(***************************************************************************)
\* A NULL integer column, and the absence of an integer in user_data.
NULL == -1
\* A NULL text column.
NULLTEXT == "NULL"
\* dict.get() found no key: the marker is replaced by the call's default.
ABSENT == "<absent>"

REQUEST_STATUS_PENDING == "pending"
REQUEST_STATUS_APPROVED == "approved"
REQUEST_STATUS_DECLINED == "declined"
REQUEST_STATUS_EXPIRED == "expired"
Statuses ==
    { REQUEST_STATUS_PENDING, REQUEST_STATUS_APPROVED,
      REQUEST_STATUS_DECLINED, REQUEST_STATUS_EXPIRED }

\* Hours after which a pending request is swept.
REQUEST_TIMEOUT_HOURS == 24
\* The clock advances in steps of this many hours.
TickHours == REQUEST_TIMEOUT_HOURS + 1

\* The moderator channel's chat id (a negative number for a group).
ADMIN_CHAT_ID == -100

\* ConversationHandler states; END is "no conversation".
END == "END"
WAITING_FOR_EXPLANATION == "WAITING_FOR_EXPLANATION"
WAITING_FOR_ANSWER == "WAITING_FOR_ANSWER"

\* The category catalog: key -> explanation template, the text before the
\* {answer} slot (every template ends with the slot).
OPTIONS_CONFIG ==
    [ couchsurfing |-> <<"Found through Couchsurfing. Account: ", "{answer}">>,
      invited |-> <<"Invited by: ", "{answer}">>,
      facebook |-> <<"Found through Facebook: ", "{answer}">>,
      other |-> <<"Other: ", "{answer}">> ]
OptionKeys == DOMAIN OPTIONS_CONFIG

\* Outcomes of one call to the Telegram API: success, or a TelegramError
\* raised (the handlers treat every class of it alike, but for
\* _safe_send_message and the text of a missing join request).
OK == "ok"
TelegramError == "TelegramError"
\* The BadRequest whose text names a missing join request.
JoinRequestMissing == "Hide_requester_missing"
CallOutcomes == {OK, TelegramError}
JoinOutcomes == CallOutcomes \cup {JoinRequestMissing}
\* The classes of TelegramError _handle_telegram_errors tells apart:
\* NetworkError (TimedOut is one) and Forbidden (the user blocked the bot);
\* TelegramError stands for every other one.
NetworkError == "NetworkError"
Forbidden == "Forbidden"
\* Outcomes of send_message under _safe_send_message.
SafeSendOutcomes == {OK, NetworkError, Forbidden, TelegramError}
\* What _safe_send_message returns or raises: the message, None (a TimedOut,
\* a NetworkError or a Forbidden was swallowed), or another TelegramError
\* raised again.
SWALLOWED == "None"
HandleTelegramErrors(outcome) ==
    IF outcome \in {NetworkError, Forbidden} THEN SWALLOWED ELSE outcome
\* A call the handler did not come to make has no outcome: its parameter
\* is fixed to OK.
NotCalled(outcome) == outcome = OK

VARIABLES
    requests,      \* the requests table: a set of rows
    requestSeq,    \* sqlite_sequence of requests: the last id handed out
    users,         \* the users table: a set of rows (the surrogate id
                   \* column, which nothing reads, is left out)
    conversation,  \* ConversationHandler's state per applicant
    user_data,     \* context.user_data per applicant
    promptShown,   \* applicants whose chat holds a Complete/Back keyboard
    adminChat,     \* application messages sent to the moderator channel
    messageSeq,    \* last message id of the moderator channel
    now,           \* the clock, in hours
    scenario,      \* per applicant: the events of the session so far
    decisionsSent, \* per request id: the decision messages delivered to
                   \* the applicant's chat
    sweepRows,     \* the rows a sweep in progress fetched and has not
                   \* finished with; empty when no sweep is at an await
    button,        \* the inline button built last, its callback_data and
                   \* what the handler of its press read from it
    last           \* the handler that ran last and what it sent

vars ==
    << requests, requestSeq, users, conversation, user_data,
       promptShown, adminChat, messageSeq, now, scenario, decisionsSent,
       sweepRows, button, last >>

(***************************************************************************)
(* The requests table.                                                     *)
(***************************************************************************)
\* fetchone() found no row.
NoRow == [id |-> NULL]
\* Faulty variant of Found: a row that is not pending counts as not found.
FoundPendingOnly(row) == row.id # NULL /\ row.status = "pending"

Found(row) == row.id # NULL

\* The first row of a result set, in rowid order, or NoRow.
FetchOne(rows) ==
    IF rows = {} THEN NoRow
    ELSE CHOOSE r \in rows : \A q \in rows : r.id <= q.id

\* A result set as a list in rowid order.
RECURSIVE FetchAll(_)
FetchAll(rows) ==
    IF rows = {} THEN << >>
    ELSE LET r == FetchOne(rows) IN << r >> \o FetchAll(rows \ {r})

\* Faulty variant of RequestCreate: the conflict on user_id is resolved by
\* updating the old row in place (ON CONFLICT DO UPDATE SET status), which
\* keeps its id and its other columns.
RequestCreateInPlace(table, seq, user_id, profile, t) ==
    IF \E r \in table : r.user_id = user_id
      THEN { IF r.user_id = user_id
               THEN [r EXCEPT !.status = REQUEST_STATUS_PENDING,
                              !.created_at = t]
               ELSE r : r \in table }
      ELSE table \cup { [ id |-> seq + 1,
                          user_id |-> user_id,
                          username |-> profile.username,
                          first_name |-> profile.first_name,
                          last_name |-> profile.last_name,
                          status |-> REQUEST_STATUS_PENDING,
                          created_at |-> t,
                          approved_at |-> NULL,
                          admin_message_id |-> NULL,
                          user_explanation |-> NULLTEXT ] }

\* Faulty variant of RequestCreate: a plain INSERT into a table whose
\* user_id is not UNIQUE, so the old row stays.
RequestCreateInsert(table, seq, user_id, profile, t) ==
    table \cup { [ id |-> seq + 1,
                   user_id |-> user_id,
                   username |-> profile.username,
                   first_name |-> profile.first_name,
                   last_name |-> profile.last_name,
                   status |-> REQUEST_STATUS_PENDING,
                   created_at |-> t,
                   approved_at |-> NULL,
                   admin_message_id |-> NULL,
                   user_explanation |-> NULLTEXT ] }

\* Faulty variant of RequestCreate: the id column is not AUTOINCREMENT, so
\* the new row takes the largest id left in the table plus one, which may
\* be the id of the row just replaced.
RequestCreateReusingRowid(table, seq, user_id, profile, t) ==
    LET kept == table \ { r \in table : r.user_id = user_id }
        largest == IF kept = {} THEN 0
                   ELSE CHOOSE i \in { r.id : r \in kept } :
                            \A r \in kept : r.id <= i
    IN
    kept \cup { [ id |-> largest + 1,
                  user_id |-> user_id,
                  username |-> profile.username,
                  first_name |-> profile.first_name,
                  last_name |-> profile.last_name,
                  status |-> REQUEST_STATUS_PENDING,
                  created_at |-> t,
                  approved_at |-> NULL,
                  admin_message_id |-> NULL,
                  user_explanation |-> NULLTEXT ] }

\* INSERT OR REPLACE INTO requests (user_id, username, first_name, last_name,
\* status, created_at): the row that holds user_id (UNIQUE) is deleted, the
\* new row takes the next AUTOINCREMENT id and NULL in the other columns.
RequestCreate(table, seq, user_id, profile, t) ==
    (table \ { r \in table : r.user_id = user_id })
        \cup { [ id |-> seq + 1,
                 user_id |-> user_id,
                 username |-> profile.username,
                 first_name |-> profile.first_name,
                 last_name |-> profile.last_name,
                 status |-> REQUEST_STATUS_PENDING,
                 created_at |-> t,
                 approved_at |-> NULL,
                 admin_message_id |-> NULL,
                 user_explanation |-> NULLTEXT ] }

\* SELECT * FROM requests WHERE user_id = ?
RequestGetByUserId(table, user_id) ==
    FetchOne({ r \in table : r.user_id = user_id })

\* SELECT * FROM requests WHERE id = ?
RequestGetById(table, request_id) ==
    FetchOne({ r \in table : r.id = request_id })

\* UPDATE requests SET user_explanation = ? WHERE id = ?
UpdateUserExplanation(table, request_id, explanation) ==
    { IF r.id = request_id
        THEN [r EXCEPT !.user_explanation = explanation]
        ELSE r : r \in table }

\* UPDATE requests SET status = ?, [approved_at = CURRENT_TIMESTAMP,]
\* admin_message_id = ? WHERE id = ?
UpdateStatus(table, request_id, status, admin_message_id, t) ==
    { IF r.id = request_id
        THEN IF status = "approved"
               THEN [r EXCEPT !.status = status,
                              !.approved_at = t,
                              !.admin_message_id = admin_message_id]
               ELSE [r EXCEPT !.status = status,
                              !.admin_message_id = admin_message_id]
        ELSE r : r \in table }

\* SELECT * FROM requests WHERE status = 'pending' AND created_at < cutoff,
\* cutoff = now - 24 hours.
GetExpiredRequests(table, t) ==
    FetchAll({ r \in table :
                 /\ r.status = "pending"
                 /\ r.created_at < t - REQUEST_TIMEOUT_HOURS })

(***************************************************************************)
(* The users table.                                                        *)
(***************************************************************************)
\* fetchone() found no user; user_id is UNIQUE, so a result set filtered by
\* it holds one row at most.
NoUser == [user_id |-> NULL]
FoundUser(row) == row.user_id # NULL
FetchUser(rows) == IF rows = {} THEN NoUser ELSE CHOOSE r \in rows : TRUE

\* INSERT OR REPLACE INTO users (user_id, username, first_name, last_name,
\* approved_at): the row that holds user_id is deleted; last_contacted_at is
\* NULL and is_active its default 1 in the new row.
UsersCreate(table, user_id, username, first_name, last_name, t) ==
    (table \ { r \in table : r.user_id = user_id })
        \cup { [ user_id |-> user_id,
                 username |-> username,
                 first_name |-> first_name,
                 last_name |-> last_name,
                 approved_at |-> t,
                 last_contacted_at |-> NULL,
                 is_active |-> TRUE ] }

\* SELECT * FROM users WHERE user_id = ? AND is_active = 1
UsersGetById(table, user_id) ==
    FetchUser({ r \in table : r.user_id = user_id /\ r.is_active })

\* SELECT * FROM users WHERE is_active = 1 ORDER BY approved_at DESC
\* (rows approved at the same time come in the order of their user_id).
RECURSIVE UsersGetAllActive(_)
UsersGetAllActive(table) ==
    LET active == { r \in table : r.is_active } IN
    IF active = {} THEN << >>
    ELSE LET r == CHOOSE q \in active :
                    \A p \in active :
                        \/ p.approved_at < q.approved_at
                        \/ /\ p.approved_at = q.approved_at
                           /\ q.user_id <= p.user_id
         IN << r >> \o UsersGetAllActive(table \ {r})

\* UPDATE users SET username, first_name, last_name,
\* approved_at = CURRENT_TIMESTAMP WHERE user_id = ?
UsersUpdate(table, user_id, username, first_name, last_name, t) ==
    { IF r.user_id = user_id
        THEN [r EXCEPT !.username = username,
                       !.first_name = first_name,
                       !.last_name = last_name,
                       !.approved_at = t]
        ELSE r : r \in table }

\* Faulty variant of UsersUpsert: the row is updated whether or not it
\* exists, and never created.
UsersUpsertUpdateOnly(table, user_id, username, first_name, last_name, t) ==
    UsersUpdate(table, user_id, username, first_name, last_name, t)

\* Users.upsert: update the active row, or create (replacing an inactive row).
UsersUpsert(table, user_id, username, first_name, last_name, t) ==
    IF FoundUser(UsersGetById(table, user_id))
      THEN UsersUpdate(table, user_id, username, first_name, last_name, t)
      ELSE UsersCreate(table, user_id, username, first_name, last_name, t)

\* Faulty variant of UpdateLastContacted: the WHERE clause is missing.
UpdateLastContactedAll(table, user_id, t) ==
    { [r EXCEPT !.last_contacted_at = t] : r \in table }

\* UPDATE users SET last_contacted_at = CURRENT_TIMESTAMP WHERE user_id = ?
UpdateLastContacted(table, user_id, t) ==
    { IF r.user_id = user_id THEN [r EXCEPT !.last_contacted_at = t] ELSE r
        : r \in table }

\* UPDATE users SET is_active = 0 WHERE user_id = ?
UsersDeactivate(table, user_id) ==
    { IF r.user_id = user_id THEN [r EXCEPT !.is_active = FALSE] ELSE r
        : r \in table }

(***************************************************************************)
(* Texts and button payloads.                                              *)
(***************************************************************************)
\* str.format(answer=answer): the {answer} slot of a template is replaced by
\* the answer, the other parts are copied.
RECURSIVE Format(_, _)
Format(template, answer) ==
    IF template = << >> THEN ""
    ELSE (IF Head(template) = "{answer}" THEN answer ELSE Head(template))
             \o Format(Tail(template), answer)

\* f"Unknown option '{selected_option}': {answer}"
UnknownOptionExplanation(selected_option, answer) ==
    "Unknown option '" \o selected_option \o "': " \o answer

\* Faulty variant of BuildExplanation: the template is formatted with the
\* category key where the answer belongs.
BuildExplanationWrongArgument(selected_option, answer) ==
    IF selected_option \in DOMAIN OPTIONS_CONFIG
      THEN Format(OPTIONS_CONFIG[selected_option], selected_option)
      ELSE UnknownOptionExplanation(selected_option, answer)

\* The explanation handle_complete_application builds.
BuildExplanation(selected_option, answer) ==
    IF selected_option \in DOMAIN OPTIONS_CONFIG
      THEN Format(OPTIONS_CONFIG[selected_option], answer)
      ELSE UnknownOptionExplanation(selected_option, answer)

\* A callback payload is kept as the list of its "_"-separated fields.
\* f"option_{option_key}"
OptionCallbackData(option_key) == << "option", option_key >>
\* f"approve_{request_id}", f"decline_{request_id}"
ApproveCallbackData(request_id) == << "approve", request_id >>
DeclineCallbackData(request_id) == << "decline", request_id >>
\* query.data.split("_")[1]
SplitSecond(data) == data[2]

\* The same payloads character by character.  A str is the sequence of its
\* characters; the keys of the catalog spelt out:
Characters(key) ==
    CASE key = "couchsurfing" ->
           << "c", "o", "u", "c", "h", "s", "u", "r", "f", "i", "n", "g" >>
      [] key = "invited" -> << "i", "n", "v", "i", "t", "e", "d" >>
      [] key = "facebook" -> << "f", "a", "c", "e", "b", "o", "o", "k" >>
      [] key = "other" -> << "o", "t", "h", "e", "r" >>

DecimalDigits == << "0", "1", "2", "3", "4", "5", "6", "7", "8", "9" >>

\* Faulty variant of Str: the digits come out least significant first.
RECURSIVE StrReversed(_)
StrReversed(n) ==
    IF n < 10 THEN << DecimalDigits[n + 1] >>
    ELSE << DecimalDigits[(n % 10) + 1] >> \o StrReversed(n \div 10)

\* str(n) of a natural number, as an f-string formats {request_id}.
RECURSIVE Str(_)
Str(n) ==
    IF n < 10 THEN << DecimalDigits[n + 1] >>
    ELSE Str(n \div 10) \o << DecimalDigits[(n % 10) + 1] >>

\* int(s) of a string of decimal digits.
RECURSIVE Int0(_)
Int0(s) ==
    IF s = << >> THEN 0
    ELSE Int0(SubSeq(s, 1, Len(s) - 1)) * 10
           + ((CHOOSE d \in 1..10 : DecimalDigits[d] = s[Len(s)]) - 1)

\* s.split(sep) for a separator of one character: the list of the fields
\* between the separators.
RECURSIVE Split(_, _)
Split(s, sep) ==
    IF \A i \in 1..Len(s) : s[i] # sep THEN << s >>
    ELSE LET i == CHOOSE j \in 1..Len(s) :
                      s[j] = sep /\ \A k \in 1..(j - 1) : s[k] # sep
         IN << SubSeq(s, 1, i - 1) >> \o Split(SubSeq(s, i + 1, Len(s)), sep)

\* callback_data = f"option_{option_key}"
OptionPayload(option_key) ==
    << "o", "p", "t", "i", "o", "n", "_" >> \o option_key
\* callback_data=f"approve_{request_id}"
ApprovePayload(request_id) ==
    << "a", "p", "p", "r", "o", "v", "e", "_" >> \o Str(request_id)
\* callback_data=f"decline_{request_id}"
DeclinePayload(request_id) ==
    << "d", "e", "c", "l", "i", "n", "e", "_" >> \o Str(request_id)
\* option = query.data.split("_")[1]
OptionOfPayload(data) == Split(data, "_")[2]
\* request_id = int(query.data.split("_")[1])
RequestIdOfPayload(data) == Int0(Split(data, "_")[2])

\* No button has been built.
NoButton ==
    [ kind |-> "none", key |-> "none", id |-> NULL, data |-> << >>,
      pressed |-> FALSE, option |-> << >>, request_id |-> NULL ]

\* context.user_data.get(key, default)
Get(value, default) == IF value = ABSENT THEN default ELSE value

\* One message a handler hands to the Telegram API: the chat, which text,
\* the user id and the error formatted into it.
Msg(chat, text) == [chat |-> chat, text |-> text, about |-> NULL, error |-> "none"]
Note(text, about, error) ==
    [chat |-> ADMIN_CHAT_ID, text |-> text, about |-> about, error |-> error]

\* No caller details.
NoProfile ==
    [username |-> NULLTEXT, first_name |-> NULLTEXT, last_name |-> NULLTEXT]

\* What the handler that has just run did.  path: the branch taken; failed:
\* the call that raised out of the handler's normal flow ("none" if none
\* did); is_admin: what is_admin_user answered about the caller, where the
\* handler asks it.
Event(op, user, request_id, message_id, path, failed, sent, explanation) ==
    [ op |-> op, user |-> user, request_id |-> request_id,
      message_id |-> message_id, path |-> path, failed |-> failed,
      sent |-> sent, explanation |-> explanation, is_admin |-> FALSE,
      join |-> "none", profile |-> NoProfile ]
ByAdmin(event, is_admin) == [event EXCEPT !.is_admin = is_admin]
\* The event of a press that called the membership authority keeps what
\* the authority answered.
Joined(event, join) == [event EXCEPT !.join = join]
\* The event of a command that stores the caller's details keeps them.
WithProfile(event, profile) == [event EXCEPT !.profile = profile]

\* No handler has run since the application took up waiting for updates.
Idle == Event("idle", NULL, NULL, NULL, "none", "none", {}, NULLTEXT)
\* Updates are processed one at a time: a handler starts when the
\* application waits for the next update.
Ready == last.op = "idle"

\* The applicant's steps through one session, kept while they follow
\* "entry command, category press, free text".
OffScenario == [stage |-> "none", option |-> ABSENT, answer |-> ABSENT]

EmptyUserData ==
    [request_id |-> NULL, selected_option |-> ABSENT, answer |-> ABSENT]

\* Faulty variant of InConversation: the conversation handlers take the
\* update whatever the state.
InConversationAlways(u) == TRUE

InConversation(u) ==
    conversation[u] \in {WAITING_FOR_EXPLANATION, WAITING_FOR_ANSWER}

\* is_admin_user: the caller's status in the moderator channel; a failed
\* lookup ("error") counts as not an admin.
ChatMemberStatuses == {"creator", "administrator", "member", "error"}
\* The caller is an administrator of the moderator channel, as Telegram
\* knows it (the fact an event keeps in is_admin).
IsChannelAdmin(chat_member) == chat_member \in {"administrator", "creator"}
\* Faulty variant of IsAdminUser: only the creator of the channel counts.
IsAdminUserCreatorOnly(chat_member) == chat_member = "creator"

\* is_admin_user: get_chat_member, status in ["administrator", "creator"];
\* a lookup that raised gives False.
IsAdminUser(chat_member) == chat_member \in {"administrator", "creator"}

Init ==
    /\ requests = {}
    /\ requestSeq = 0
    /\ users = {}
    /\ conversation = [u \in Applicants |-> END]
    /\ user_data = [u \in Applicants |-> EmptyUserData]
    /\ promptShown = {}
    /\ adminChat = {}
    /\ messageSeq = 0
    /\ now = 0
    /\ scenario = [u \in Applicants |-> OffScenario]
    /\ decisionsSent = [id \in 1..MaxRequests |-> 0]
    /\ sweepRows = << >>
    /\ button = NoButton
    /\ last = Idle

(***************************************************************************)
(* The conversation (handlers/user_handlers.py), dispatched by the         *)
(* ConversationHandler of bot.py: /start is an entry point, taken only     *)
(* when the applicant has no conversation; the three callback handlers and *)
(* the text handler of the current state are taken inside one; /cancel is  *)
(* the fallback.  A handler that returns None keeps the state.             *)
(***************************************************************************)
\* Faulty variant of HasPendingRequest: the row is compared with the wrong
\* status.
HasPendingRequestWrongStatus(existing_request) ==
    Found(existing_request) /\ existing_request.status = "approved"

\* existing_request and existing_request["status"] == "pending"
HasPendingRequest(existing_request) ==
    Found(existing_request) /\ existing_request.status = "pending"

\* start_command; reply is the outcome of the one reply it sends.  A failed
\* admin or pending reply leaves no conversation, whether it is passed over
\* or raised; send_welcome_message passes every failure over, so the
\* conversation is entered whether or not the menu was delivered.
StartCommand(u, profile, chat_member, reply) ==
    /\ Ready
    /\ conversation[u] = END
    /\ LET existing_request == RequestGetByUserId(requests, u)
           is_admin == IsAdminUser(chat_member)
           failed == IF reply = OK THEN "none" ELSE "reply_text"
       IN
       IF is_admin
         THEN /\ last' = ByAdmin(Event("start", u, NULL, NULL, "admin", failed,
                                       {Msg(u, "ADMIN_PANEL_MESSAGE")},
                                       NULLTEXT),
                                 IsChannelAdmin(chat_member))
              /\ UNCHANGED << requests, requestSeq, conversation, user_data,
                              scenario >>
       ELSE IF HasPendingRequest(existing_request)
         THEN /\ last' = ByAdmin(Event("start", u, existing_request.id, NULL,
                                       "pending", failed,
                                       {Msg(u, "PENDING_REQUEST_MSG")},
                                       NULLTEXT),
                                 IsChannelAdmin(chat_member))
              /\ UNCHANGED << requests, requestSeq, conversation, user_data,
                              scenario >>
       ELSE /\ requestSeq < MaxRequests
            /\ requests' = RequestCreate(requests, requestSeq, u, profile, now)
            /\ requestSeq' = requestSeq + 1
            /\ user_data' =
                 [user_data EXCEPT ![u].request_id = requestSeq + 1]
            /\ conversation' =
                 [conversation EXCEPT ![u] = WAITING_FOR_EXPLANATION]
            /\ scenario' = [scenario EXCEPT ![u] =
                 IF reply = OK
                   THEN [stage |-> "started", option |-> ABSENT,
                         answer |-> ABSENT]
                   ELSE OffScenario]
            /\ last' = ByAdmin(Event("start", u, requestSeq + 1, NULL,
                                     "created", failed,
                                     {Msg(u, "WELCOME_TEXT")}, NULLTEXT),
                               IsChannelAdmin(chat_member))
    /\ UNCHANGED << button, sweepRows, decisionsSent, users, promptShown, adminChat, messageSeq, now >>

\* /start sent inside a conversation: the ConversationHandler is built
\* without allow_reentry, the text handlers exclude commands and the only
\* fallback is /cancel, so no handler takes the update.
StartIgnored(u) ==
    /\ Ready
    /\ InConversation(u)
    /\ last' = Event("start_unhandled", u, NULL, NULL, "ignored", "none", {}, NULLTEXT)
    /\ UNCHANGED << button, sweepRows, decisionsSent, requests, requestSeq, users, conversation, user_data,
                    promptShown, adminChat, messageSeq, now, scenario >>

HandleOptionSelection(u, option_key, answer_query, edit) ==
    /\ Ready
    /\ InConversation(u)
    /\ answer_query # OK => NotCalled(edit)
    /\ IF answer_query # OK
         THEN /\ last' = Event("option", u, NULL, NULL, "raised", "answer",
                               {}, NULLTEXT)
              /\ UNCHANGED user_data
         ELSE LET option == SplitSecond(OptionCallbackData(option_key)) IN
              /\ user_data' = [user_data EXCEPT ![u].selected_option = option]
              /\ last' = IF edit = OK
                           THEN Event("option", u, NULL, NULL, "question",
                                      "none", {Msg(u, "QUESTION")}, NULLTEXT)
                           ELSE Event("option", u, NULL, NULL, "raised",
                                      "edit_message_text", {}, NULLTEXT)
    /\ scenario' = [scenario EXCEPT ![u] =
         IF answer_query = OK /\ edit = OK /\ scenario[u].stage = "started"
           THEN [stage |-> "pressed", option |-> option_key, answer |-> ABSENT]
           ELSE OffScenario]
    /\ UNCHANGED << button, sweepRows, decisionsSent, requests, requestSeq, users, conversation,
                    promptShown, adminChat, messageSeq, now >>

HandleBackButton(u, answer_query, reply) ==
    /\ Ready
    /\ InConversation(u)
    /\ u \in promptShown \/ user_data[u].selected_option # ABSENT
    /\ answer_query # OK => NotCalled(reply)
    /\ last' = IF answer_query # OK
                 THEN Event("back", u, NULL, NULL, "raised", "answer", {},
                            NULLTEXT)
                 ELSE Event("back", u, NULL, NULL, "menu",
                            IF reply = OK THEN "none" ELSE "reply_text",
                            {Msg(u, "WELCOME_TEXT")}, NULLTEXT)
    /\ scenario' = [scenario EXCEPT ![u] = OffScenario]
    /\ UNCHANGED << button, sweepRows, decisionsSent, requests, requestSeq, users, conversation,
                    user_data, promptShown, adminChat, messageSeq, now >>

\* handle_explanation (text in WAITING_FOR_EXPLANATION) and handle_answer
\* (text in WAITING_FOR_ANSWER); reply is the outcome of reply_text.
HandleExplanation(u, text, reply) ==
    /\ Ready
    /\ conversation[u] = WAITING_FOR_EXPLANATION
    /\ user_data' = [user_data EXCEPT ![u].selected_option = "other",
                                      ![u].answer = text]
    /\ IF reply = OK
         THEN /\ conversation' =
                   [conversation EXCEPT ![u] = WAITING_FOR_ANSWER]
              /\ promptShown' = promptShown \cup {u}
              /\ last' = Event("explanation", u, NULL, NULL, "prompt", "none",
                               {Msg(u, "COMPLETE_PROMPT")}, NULLTEXT)
         ELSE /\ UNCHANGED << conversation, promptShown >>
              /\ last' = Event("explanation", u, NULL, NULL, "raised",
                               "reply_text", {Msg(u, "COMPLETE_PROMPT")},
                               NULLTEXT)
    /\ scenario' = [scenario EXCEPT ![u] =
         IF reply = OK /\ scenario[u].stage = "pressed"
           THEN [scenario[u] EXCEPT !.stage = "texted", !.answer = text]
           ELSE OffScenario]
    /\ UNCHANGED << button, sweepRows, decisionsSent, requests, requestSeq, users, adminChat,
                    messageSeq, now >>

HandleAnswer(u, text, reply) ==
    /\ Ready
    /\ conversation[u] = WAITING_FOR_ANSWER
    /\ user_data' = [user_data EXCEPT ![u].answer = text]
    /\ IF reply = OK
         THEN /\ promptShown' = promptShown \cup {u}
              /\ last' = Event("answer", u, NULL, NULL, "prompt", "none",
                               {Msg(u, "COMPLETE_PROMPT")}, NULLTEXT)
         ELSE /\ UNCHANGED promptShown
              /\ last' = Event("answer", u, NULL, NULL, "raised",
                               "reply_text", {Msg(u, "COMPLETE_PROMPT")},
                               NULLTEXT)
    /\ scenario' = [scenario EXCEPT ![u] =
         IF reply = OK /\ scenario[u].stage = "pressed"
           THEN [scenario[u] EXCEPT !.stage = "texted", !.answer = text]
           ELSE OffScenario]
    /\ UNCHANGED << button, sweepRows, decisionsSent, requests, requestSeq, users, conversation,
                    adminChat, messageSeq, now >>

\* Faulty variant of SubmittedRequests: the submission is written as an
\* approval.
SubmittedRequestsAsApproved(table, request_id, message_id, t) ==
    UpdateStatus(table, request_id, REQUEST_STATUS_APPROVED, message_id, t)

\* Faulty variant of SubmittedRequests: the id of the sent message is not
\* kept.
SubmittedRequestsWithoutMessageId(table, request_id, message_id, t) ==
    UpdateStatus(table, request_id, REQUEST_STATUS_PENDING, NULL, t)

\* submit_to_admins after a successful send:
\* update_status(request_id, "pending", admin_message.message_id)
SubmittedRequests(table, request_id, message_id, t) ==
    UpdateStatus(table, request_id, REQUEST_STATUS_PENDING, message_id, t)

\* handle_complete_application with submit_to_admins: send_admin is the
\* outcome of the send to the moderator channel (any failure is passed
\* over), edit that of the final edit_message_text(SUBMITTED_MSG);
\* max_messages is the last message id the moderator channel hands out.
HandleCompleteApplicationUpTo(u, answer_query, send_admin, edit, max_messages) ==
    /\ Ready
    /\ InConversation(u)
    /\ u \in promptShown
    /\ send_admin = OK => messageSeq < max_messages
    /\ answer_query # OK => NotCalled(send_admin) /\ NotCalled(edit)
    /\ LET request_id == user_data[u].request_id
           selected_option == Get(user_data[u].selected_option, "unknown")
           answer == Get(user_data[u].answer, "")
           explanation == BuildExplanation(selected_option, answer)
           saved == UpdateUserExplanation(requests, request_id, explanation)
           application ==
               [chat |-> ADMIN_CHAT_ID, text |-> "admin_application_text",
                about |-> u, error |-> "none"]
       IN
       IF answer_query # OK \/ request_id = NULL
         THEN /\ last' = Event("complete", u, request_id, NULL, "raised",
                               IF answer_query # OK THEN "answer"
                               ELSE "KeyError", {}, NULLTEXT)
              /\ scenario' = [scenario EXCEPT ![u] = OffScenario]
              /\ UNCHANGED << requests, adminChat, messageSeq, conversation >>
         ELSE /\ IF send_admin = OK
                   THEN /\ messageSeq' = messageSeq + 1
                        /\ adminChat' = adminChat \cup
                             { [ message_id |-> messageSeq + 1,
                                 request_id |-> request_id,
                                 state |-> "buttons" ] }
                        /\ requests' = SubmittedRequests(saved, request_id,
                                           messageSeq + 1, now)
                   ELSE /\ requests' = saved
                        /\ UNCHANGED << adminChat, messageSeq >>
              /\ conversation' =
                   IF edit = OK THEN [conversation EXCEPT ![u] = END]
                   ELSE conversation
              /\ scenario' = [scenario EXCEPT ![u] =
                   IF scenario[u].stage = "texted" /\ send_admin = OK
                     THEN [scenario[u] EXCEPT !.stage = "completed"]
                     ELSE OffScenario]
              /\ last' = Event("complete", u, request_id,
                               IF send_admin = OK THEN messageSeq + 1
                               ELSE NULL,
                               IF send_admin = OK THEN "submitted"
                               ELSE "not_delivered",
                               IF edit = OK THEN "none"
                               ELSE "edit_message_text",
                               {application, Msg(u, "SUBMITTED_MSG")},
                               explanation)
    /\ UNCHANGED << button, sweepRows, decisionsSent, requestSeq, users, user_data, promptShown, now >>

HandleCompleteApplication(u, answer_query, send_admin, edit) ==
    HandleCompleteApplicationUpTo(u, answer_query, send_admin, edit, MaxMessages)

\* Faulty variant of CancelApplication: the cancelled request is removed
\* from the requests table.
CancelApplicationDeletesRequest(u, reply) ==
    /\ Ready
    /\ InConversation(u)
    /\ conversation' =
         IF reply = OK THEN [conversation EXCEPT ![u] = END] ELSE conversation
    /\ scenario' = [scenario EXCEPT ![u] = OffScenario]
    /\ requests' = { r \in requests : r.user_id # u }
    /\ last' = Event("cancel", u, NULL, NULL,
                     IF reply = OK THEN "cancelled" ELSE "raised",
                     IF reply = OK THEN "none" ELSE "reply_text",
                     {Msg(u, "CANCELLED_MSG")}, NULLTEXT)
    /\ UNCHANGED << button, sweepRows, decisionsSent, requestSeq, users, user_data,
                    promptShown, adminChat, messageSeq, now >>

\* cancel_application, the fallback of the conversation in both states:
\* reply_text(CANCELLED_MSG), then END; a reply that raised leaves the
\* state as it was.
CancelApplication(u, reply) ==
    /\ Ready
    /\ InConversation(u)
    /\ conversation' =
         IF reply = OK THEN [conversation EXCEPT ![u] = END] ELSE conversation
    /\ scenario' = [scenario EXCEPT ![u] = OffScenario]
    /\ last' = Event("cancel", u, NULL, NULL,
                     IF reply = OK THEN "cancelled" ELSE "raised",
                     IF reply = OK THEN "none" ELSE "reply_text",
                     {Msg(u, "CANCELLED_MSG")}, NULLTEXT)
    /\ UNCHANGED << button, sweepRows, decisionsSent, requests, requestSeq, users, user_data,
                    promptShown, adminChat, messageSeq, now >>

\* handle_general_callback: a press of a category, Back or Complete button
\* by someone who has no conversation is taken by no handler of the
\* ConversationHandler and by neither pattern of the admin handlers; the
\* catch-all CallbackQueryHandler answers it with ACTION_NOT_AVAILABLE.
HandleGeneralCallback(u, answer_query) ==
    /\ Ready
    /\ ~InConversation(u)
    /\ last' = Event("callback", u, NULL, NULL,
                     IF answer_query = OK THEN "not_available" ELSE "raised",
                     IF answer_query = OK THEN "none" ELSE "answer",
                     {Msg(u, "ACTION_NOT_AVAILABLE")}, NULLTEXT)
    /\ UNCHANGED << button, sweepRows, decisionsSent, requests, requestSeq, users, conversation,
                    user_data, promptShown, adminChat, messageSeq, now,
                    scenario >>

\* add_command, a handler outside the conversation: it reads the caller's
\* active row and calls db.users.upsert_user, a method class Users does not
\* have (it has upsert): the AttributeError is caught by the handler's
\* except Exception, which replies the error text (a failure of that reply
\* is logged).  No table is written.
AddCommand(u, profile, reply) ==
    /\ Ready
    /\ LET existing_user == UsersGetById(users, u) IN
       last' = WithProfile(
                   Event("add", u, NULL, NULL, "error", "upsert_user",
                         IF reply = OK THEN {Msg(u, "ADD_COMMAND_ERROR")} ELSE {},
                         NULLTEXT),
                   profile)
    /\ UNCHANGED << button, sweepRows, decisionsSent, requests, requestSeq, users, conversation, user_data,
                    promptShown, adminChat, messageSeq, now, scenario >>

(***************************************************************************)
(* The moderator's presses (handlers/admin_handlers.py).                   *)
(***************************************************************************)
\* A press reaches the bot for a message that still shows its buttons, or
\* right after the press on the same message that was handled just before
\* (two moderators pressing at the same time).
Pressable(m) ==
    \/ Ready /\ m.state = "buttons"
    \/ last.op \in {"approve", "decline"} /\ last.message_id = m.message_id

SetState(chat, m, state) ==
    (chat \ {m}) \cup { [m EXCEPT !.state = state] }

\* Faulty variant of IsJoinRequestMissing: every error of the direct grant
\* is taken for a missing join request.
IsJoinRequestMissingAlways(e) == e # OK

\* Faulty variant of IsJoinRequestMissing: the text of the error is never
\* recognised.
IsJoinRequestMissingNever(e) == FALSE

\* "Hide_requester_missing" in str(e) or "CHAT_JOIN_REQUEST_NOT_FOUND" in str(e)
IsJoinRequestMissing(e) == e = JoinRequestMissing

\* The calls that follow the two table writes of an approval or the write
\* of a decline: query.delete_message(), the confirmation to the moderator
\* channel and the DM to the applicant, the last two through
\* _safe_send_message, whose result the handlers do not read: OK stands for
\* "returned" (the message, or None).  The call that raised, "none" if none
\* did.
TailFailed(delete, send_admin, send_user) ==
    IF delete # OK THEN "delete_message"
    ELSE IF send_admin = TelegramError THEN "send_admin"
    ELSE IF send_user = TelegramError THEN "send_user"
    ELSE "none"

TailError(delete, send_admin, send_user) ==
    IF delete # OK THEN delete
    ELSE IF send_admin = TelegramError \/ send_user = TelegramError
      THEN TelegramError
    ELSE "none"

\* The decision message reached the applicant: the moderator message was
\* deleted, the note to the channel did not raise and the DM was delivered.
DecisionDelivered(delete, send_admin, send_user) ==
    delete = OK /\ send_admin # TelegramError /\ send_user = OK

\* One more decision message in the applicant's chat for this request.
DecisionCounted(sent, request_id, delivered) ==
    IF delivered THEN [sent EXCEPT ![request_id] = @ + 1] ELSE sent

\* What those calls handed to the API before one of them raised.
TailSent(delete, send_admin, admin_text, user_id, user_text) ==
    IF delete # OK THEN {}
    ELSE IF send_admin = TelegramError THEN {Msg(ADMIN_CHAT_ID, admin_text)}
    ELSE {Msg(ADMIN_CHAT_ID, admin_text), Msg(user_id, user_text)}

\* ERROR_APPROVE_FAILED.format(user_id=request["user_id"], error=e) and
\* ERROR_INVITE_LINK_FAILED.format(user_id=request["user_id"], error=gen_err),
\* sent to the moderator channel.
ApproveFailedNote(user_id, error) ==
    Note("ERROR_APPROVE_FAILED", user_id, error)
\* Faulty variant of InviteLinkFailedNote: the error is left out of the note.
InviteLinkFailedNoteWithoutError(user_id, error) ==
    Note("ERROR_INVITE_LINK_FAILED", user_id, "none")
InviteLinkFailedNote(user_id, error) ==
    Note("ERROR_INVITE_LINK_FAILED", user_id, error)

\* _complete_approval and the same writes of _handle_invite_link_approval:
\* update_status(approved, the pressed message's id), then Users.upsert
\* with the name fields of the request as fetched.
ApprovedRequests(table, request_id, message_id, t) ==
    UpdateStatus(table, request_id, REQUEST_STATUS_APPROVED, message_id, t)

ApprovedUsers(table, request, t) ==
    UsersUpsert(table, request.user_id, request.username,
                request.first_name, request.last_name, t)

\* approve_request.  join: approve_chat_join_request; link:
\* create_chat_invite_link; send_note: the send of the invite-link-failed
\* note.
\* The calls approve_request comes to make, given the outcomes of the calls
\* before them.
ApproveCalls(found, answer_query, join, link, delete, send_admin, send_user, send_note) ==
    LET tried == answer_query = OK /\ found
        wrote == /\ tried
                 /\ join = OK \/ (IsJoinRequestMissing(join) /\ link = OK)
    IN
    /\ ~tried => NotCalled(join)
    /\ ~(tried /\ IsJoinRequestMissing(join)) => NotCalled(link)
    /\ ~wrote => NotCalled(delete)
    /\ ~(wrote /\ delete = OK) => NotCalled(send_admin)
    /\ ~(wrote /\ delete = OK /\ send_admin # TelegramError)
          => NotCalled(send_user)
    /\ ~(/\ tried
          /\ IsJoinRequestMissing(join)
          /\ (link # OK \/ TailFailed(delete, send_admin, send_user) # "none"))
          => NotCalled(send_note)

\* The outcomes approve_request can meet when the request is found.
ApproveOutcomes ==
    { o : o \in
        { p \in [ answer_query : CallOutcomes, join : JoinOutcomes,
                  link : CallOutcomes, delete : CallOutcomes,
                  send_admin : CallOutcomes, send_user : CallOutcomes,
                  send_note : CallOutcomes ] :
            ApproveCalls(TRUE, p.answer_query, p.join, p.link, p.delete,
                         p.send_admin, p.send_user, p.send_note) } }

ApproveRequest(m, answer_query, join, link, delete, send_admin, send_user, send_note) ==
    /\ m \in adminChat
    /\ Pressable(m)
    /\ m.state = "deleted" => delete # OK
    /\ ApproveCalls(Found(RequestGetById(requests, m.request_id)),
                    answer_query, join, link, delete, send_admin, send_user,
                    send_note)
    /\ LET request_id == SplitSecond(ApproveCallbackData(m.request_id))
           request == RequestGetById(requests, request_id)
           failed == TailFailed(delete, send_admin, send_user)
           error == TailError(delete, send_admin, send_user)
           written ==
               /\ requests' = ApprovedRequests(requests, request_id,
                                               m.message_id, now)
               /\ users' = ApprovedUsers(users, request, now)
               /\ adminChat' = IF delete = OK
                                 THEN SetState(adminChat, m, "deleted")
                                 ELSE adminChat
           untouched == UNCHANGED << requests, users, adminChat >>
       IN
       IF answer_query # OK
         THEN /\ untouched
              /\ last' = Event("approve", NULL, request_id, m.message_id,
                               "raised", "answer", {}, NULLTEXT)
       ELSE IF ~Found(request)
         THEN /\ adminChat' = IF m.state = "deleted" THEN adminChat
                              ELSE SetState(adminChat, m, "edited")
              /\ UNCHANGED << requests, users >>
              /\ last' = Event("approve", NULL, request_id, m.message_id,
                               "not_found", "none",
                               {Msg(ADMIN_CHAT_ID, "REQUEST_NOT_FOUND")},
                               NULLTEXT)
       ELSE IF join = OK
         THEN \* _handle_direct_approval
              /\ written
              /\ last' = Joined(Event("approve", request.user_id, request_id,
                     m.message_id, "direct", failed,
                     TailSent(delete, send_admin, "admin_approved_added",
                              request.user_id, "USER_APPROVED_DM")
                       \cup (IF failed = "none" THEN {}
                             ELSE {ApproveFailedNote(request.user_id, error)}),
                     NULLTEXT), join)
       ELSE IF IsJoinRequestMissing(join) /\ link = OK
         THEN \* _handle_invite_link_approval
              /\ written
              /\ last' = Joined(Event("approve", request.user_id, request_id,
                     m.message_id, "link", failed,
                     TailSent(delete, send_admin, "admin_approved_link_sent",
                              request.user_id, "user_approved_with_link")
                       \cup (IF failed = "none" THEN {}
                             ELSE {InviteLinkFailedNote(request.user_id, error)})
                       \cup (IF failed # "none" /\ send_note = TelegramError
                               THEN {ApproveFailedNote(request.user_id, TelegramError)}
                               ELSE {}),
                     NULLTEXT), join)
       ELSE IF IsJoinRequestMissing(join)
         THEN \* create_chat_invite_link raised
              /\ untouched
              /\ last' = Joined(Event("approve", request.user_id, request_id,
                     m.message_id, "link", "create_chat_invite_link",
                     {InviteLinkFailedNote(request.user_id, link)}
                       \cup (IF send_note = TelegramError
                               THEN {ApproveFailedNote(request.user_id, TelegramError)}
                               ELSE {}),
                     NULLTEXT), join)
         ELSE \* approve_chat_join_request raised something else
              /\ untouched
              /\ last' = Joined(Event("approve", request.user_id, request_id,
                     m.message_id, "direct", "approve_chat_join_request",
                     {ApproveFailedNote(request.user_id, join)},
                     NULLTEXT), join)
    /\ LET request == RequestGetById(requests, m.request_id)
           delivered ==
               /\ answer_query = OK
               /\ Found(request)
               /\ join = OK \/ (IsJoinRequestMissing(join) /\ link = OK)
               /\ DecisionDelivered(delete, send_admin, send_user)
       IN
       /\ delivered => decisionsSent[m.request_id] < MaxDecisions
       /\ decisionsSent' =
            DecisionCounted(decisionsSent, m.request_id, delivered)
    /\ UNCHANGED << button, sweepRows, requestSeq, conversation, user_data,
                    promptShown, messageSeq, now, scenario >>

\* Faulty variant of DeclinedRequests: the status written is the one of an
\* approval.
DeclinedRequestsAsApproved(table, request_id, message_id, t) ==
    UpdateStatus(table, request_id, REQUEST_STATUS_APPROVED, message_id, t)

\* ERROR_DECLINE_FAILED.format(user_id=request["user_id"], error=e), sent to
\* the moderator channel.
DeclineFailedNote(user_id, error) ==
    Note("ERROR_DECLINE_FAILED", user_id, error)

\* The write of decline_request: update_status(declined, the pressed
\* message's id).
DeclinedRequests(table, request_id, message_id, t) ==
    UpdateStatus(table, request_id, REQUEST_STATUS_DECLINED, message_id, t)

\* decline_request.  join: decline_chat_join_request.
\* The calls decline_request comes to make.
DeclineCalls(found, answer_query, join, delete, send_admin, send_user) ==
    LET tried == answer_query = OK /\ found
        wrote == tried /\ (join = OK \/ IsJoinRequestMissing(join))
    IN
    /\ ~tried => NotCalled(join)
    /\ ~wrote => NotCalled(delete)
    /\ ~(wrote /\ delete = OK) => NotCalled(send_admin)
    /\ ~(wrote /\ delete = OK /\ send_admin # TelegramError)
          => NotCalled(send_user)

\* The outcomes decline_request can meet when the request is found.
DeclineOutcomes ==
    { o : o \in
        { p \in [ answer_query : CallOutcomes, join : JoinOutcomes,
                  delete : CallOutcomes, send_admin : CallOutcomes,
                  send_user : CallOutcomes ] :
            DeclineCalls(TRUE, p.answer_query, p.join, p.delete, p.send_admin,
                         p.send_user) } }

DeclineRequest(m, answer_query, join, delete, send_admin, send_user) ==
    /\ m \in adminChat
    /\ Pressable(m)
    /\ m.state = "deleted" => delete # OK
    /\ DeclineCalls(Found(RequestGetById(requests, m.request_id)),
                    answer_query, join, delete, send_admin, send_user)
    /\ LET request_id == SplitSecond(DeclineCallbackData(m.request_id))
           request == RequestGetById(requests, request_id)
           failed == TailFailed(delete, send_admin, send_user)
           error == TailError(delete, send_admin, send_user)
       IN
       IF answer_query # OK
         THEN /\ UNCHANGED << requests, adminChat >>
              /\ last' = Event("decline", NULL, request_id, m.message_id,
                               "raised", "answer", {}, NULLTEXT)
       ELSE IF ~Found(request)
         THEN /\ adminChat' = IF m.state = "deleted" THEN adminChat
                              ELSE SetState(adminChat, m, "edited")
              /\ UNCHANGED requests
              /\ last' = Event("decline", NULL, request_id, m.message_id,
                               "not_found", "none",
                               {Msg(ADMIN_CHAT_ID, "REQUEST_NOT_FOUND")},
                               NULLTEXT)
       ELSE IF join = OK \/ IsJoinRequestMissing(join)
         THEN /\ requests' = DeclinedRequests(requests, request_id,
                                               m.message_id, now)
              /\ adminChat' = IF delete = OK
                                THEN SetState(adminChat, m, "deleted")
                                ELSE adminChat
              /\ last' = Joined(Event("decline", request.user_id, request_id,
                     m.message_id, "declined", failed,
                     TailSent(delete, send_admin, "ADMIN_DECLINED_MSG",
                              request.user_id, "USER_DECLINED_DM")
                       \cup (IF failed = "none" THEN {}
                             ELSE {DeclineFailedNote(request.user_id, error)}),
                     NULLTEXT), join)
         ELSE /\ UNCHANGED << requests, adminChat >>
              /\ last' = Joined(Event("decline", request.user_id, request_id,
                     m.message_id, "refused", "decline_chat_join_request",
                     {DeclineFailedNote(request.user_id, join)},
                     NULLTEXT), join)
    /\ LET request == RequestGetById(requests, m.request_id)
           delivered ==
               /\ answer_query = OK
               /\ Found(request)
               /\ join = OK \/ IsJoinRequestMissing(join)
               /\ DecisionDelivered(delete, send_admin, send_user)
       IN
       /\ delivered => decisionsSent[m.request_id] < MaxDecisions
       /\ decisionsSent' =
            DecisionCounted(decisionsSent, m.request_id, delivered)
    /\ UNCHANGED << button, sweepRows, requestSeq, users, conversation, user_data,
                    promptShown, messageSeq, now, scenario >>

\* The loop of broadcast_message over the active users as fetched: a
\* delivered message stamps last_contacted_at, None deactivates the user,
\* an error raised again ends the handler.
RECURSIVE BroadcastLoop(_, _, _, _)
BroadcastLoop(table, recipients, outcome, t) ==
    IF recipients = << >> THEN table
    ELSE LET user_id == Head(recipients).user_id
             result == HandleTelegramErrors(outcome[user_id])
         IN
         IF result = OK
           THEN BroadcastLoop(UpdateLastContacted(table, user_id, t),
                              Tail(recipients), outcome, t)
         ELSE IF result = SWALLOWED
           THEN BroadcastLoop(UsersDeactivate(table, user_id),
                              Tail(recipients), outcome, t)
         ELSE table

\* The recipients the loop sent to, up to and with the one that raised, each
\* with the error its send met.
RECURSIVE BroadcastSent(_, _)
BroadcastSent(recipients, outcome) ==
    IF recipients = << >> THEN {}
    ELSE LET user_id == Head(recipients).user_id IN
         {[Msg(user_id, "BROADCAST") EXCEPT !.error =
               IF outcome[user_id] = OK THEN "none" ELSE outcome[user_id]]}
           \cup (IF outcome[user_id] = TelegramError THEN {}
                 ELSE BroadcastSent(Tail(recipients), outcome))

\* broadcast_summary(successful_sends, failed_sends, len(users)), replied to
\* the caller: the loop counts a delivered message as successful and a None
\* of _safe_send_message as failed.
BroadcastSummary(recipients, outcome) ==
    LET results == [i \in DOMAIN recipients |->
                       HandleTelegramErrors(outcome[recipients[i].user_id])]
    IN
    [ chat |-> NULL, text |-> "broadcast_summary", about |-> NULL,
      error |-> "none",
      successful_sends |->
          Cardinality({ i \in DOMAIN recipients : results[i] = OK }),
      failed_sends |->
          Cardinality({ i \in DOMAIN recipients : results[i] = SWALLOWED }),
      total_users |-> Len(recipients) ]

\* Faulty variant of CheckAdminPermission: a lookup that failed lets the
\* caller through.
CheckAdminPermissionOnError(chat_member) ==
    IsAdminUser(chat_member) \/ chat_member = "error"

\* _check_admin_permission: is_admin_user, asked for every command (its
\* reply of ADMIN_ONLY_COMMAND is sent by the handlers below).
CheckAdminPermission(chat_member) == IsAdminUser(chat_member)

\* broadcast_message, sent by anyone: chat_member is the caller's status in
\* the moderator channel, has_text whether text follows /broadcast.
\* The recipients broadcast_message comes to send to.
BroadcastCalls(chat_member, has_text, recipients, outcome) ==
    \A user_id \in DOMAIN outcome :
        ~(/\ CheckAdminPermission(chat_member) /\ has_text
          /\ \E i \in 1..Len(recipients) :
                /\ recipients[i].user_id = user_id
                /\ \A j \in 1..(i - 1) :
                      outcome[recipients[j].user_id] # TelegramError)
          => NotCalled(outcome[user_id])

BroadcastMessage(chat_member, has_text, outcome) ==
    /\ Ready
    /\ BroadcastCalls(chat_member, has_text, UsersGetAllActive(users), outcome)
    /\ LET recipients == UsersGetAllActive(users)
           raised == \E i \in 1..Len(recipients) :
                        outcome[recipients[i].user_id] = TelegramError
           by == IsChannelAdmin(chat_member)
       IN
       IF ~CheckAdminPermission(chat_member)
         THEN /\ UNCHANGED users
              /\ last' = ByAdmin(Event("broadcast", NULL, NULL, NULL,
                                       "not_admin", "none",
                                       {Msg(NULL, "ADMIN_ONLY_COMMAND")},
                                       NULLTEXT), by)
       ELSE IF ~has_text
         THEN /\ UNCHANGED users
              /\ last' = ByAdmin(Event("broadcast", NULL, NULL, NULL,
                                       "no_message", "none",
                                       {Msg(NULL, "BROADCAST_NO_MESSAGE")},
                                       NULLTEXT), by)
       ELSE IF recipients = << >>
         THEN /\ UNCHANGED users
              /\ last' = ByAdmin(Event("broadcast", NULL, NULL, NULL,
                                       "no_users", "none",
                                       {Msg(NULL, "BROADCAST_NO_USERS")},
                                       NULLTEXT), by)
         ELSE /\ users' = BroadcastLoop(users, recipients, outcome, now)
              /\ last' = ByAdmin(Event("broadcast", NULL, NULL, NULL,
                               IF raised THEN "raised" ELSE "summary",
                               IF raised THEN "send_message" ELSE "none",
                               BroadcastSent(recipients, outcome)
                                 \cup (IF raised THEN {}
                                       ELSE {BroadcastSummary(recipients,
                                                              outcome)}),
                               NULLTEXT), by)
    /\ UNCHANGED << button, sweepRows, decisionsSent, requests, requestSeq, conversation, user_data,
                    promptShown, adminChat, messageSeq, now,
                    scenario >>

\* user_stats, sent by anyone: the counts over the active users go to the
\* caller; no table is written.
UserStats(chat_member) ==
    /\ Ready
    /\ LET recipients == UsersGetAllActive(users)
           by == IsChannelAdmin(chat_member)
       IN
       last' = ByAdmin(
           IF ~CheckAdminPermission(chat_member)
             THEN Event("stats", NULL, NULL, NULL, "not_admin", "none",
                        {Msg(NULL, "ADMIN_ONLY_COMMAND")}, NULLTEXT)
           ELSE IF recipients = << >>
             THEN Event("stats", NULL, NULL, NULL, "no_users", "none",
                        {Msg(NULL, "STATS_NO_USERS")}, NULLTEXT)
             ELSE Event("stats", NULL, NULL, NULL, "stats", "none",
                        {Msg(NULL, "user_stats_text")}, NULLTEXT),
           by)
    /\ UNCHANGED << button, sweepRows, decisionsSent, requests, requestSeq, users, conversation, user_data,
                    promptShown, adminChat, messageSeq, now, scenario >>

(***************************************************************************)
(* The expiry sweep (check_expired_requests of the scheduled revision),    *)
(* run by the scheduler every hour.                                        *)
(***************************************************************************)
\* Faulty variant of ExpireRows: only the rows that record a moderator
\* message are written.
ExpireRowsPostedOnly(table, expired_requests, t) ==
    { IF \E i \in DOMAIN expired_requests :
            /\ expired_requests[i].id = r.id
            /\ expired_requests[i].admin_message_id # NULL
        THEN [r EXCEPT !.status = REQUEST_STATUS_EXPIRED]
        ELSE r : r \in table }

\* The requests table after the loop over the rows the query returned: each
\* is written expired, with the admin_message_id it was fetched with.
RECURSIVE ExpireRows(_, _, _)
ExpireRows(table, expired_requests, t) ==
    IF expired_requests = << >> THEN table
    ELSE LET request == Head(expired_requests) IN
         ExpireRows(UpdateStatus(table, request["id"], REQUEST_STATUS_EXPIRED,
                                 request["admin_message_id"], t),
                    Tail(expired_requests), t)

\* The message ids the loop calls delete_message for.
ExpiredMessageIds(expired_requests) ==
    { expired_requests[i].admin_message_id : i \in DOMAIN expired_requests }
        \ {NULL}

\* What the loop hands to the API: for a row with a message whose deletion
\* succeeded the note to the moderator channel, for every row the DM.
ExpirySent(expired_requests, delete) ==
    UNION { (IF /\ expired_requests[i].admin_message_id # NULL
                /\ delete[expired_requests[i].admin_message_id] = OK
               THEN {Note("EXPIRED_NOTE", expired_requests[i].user_id, "none")}
               ELSE {})
              \cup {Msg(expired_requests[i].user_id, "EXPIRED_DM")}
            : i \in DOMAIN expired_requests }

\* delete[i] is the outcome of delete_message for message id i; every
\* TelegramError of the loop is logged and passed over.
CheckExpiredRequests(delete) ==
    /\ Ready
    /\ LET expired_requests == GetExpiredRequests(requests, now)
           message_ids == ExpiredMessageIds(expired_requests)
       IN
       /\ expired_requests # << >>
       /\ \A i \in DOMAIN delete : i \notin message_ids => NotCalled(delete[i])
       /\ \A m \in adminChat :
             m.message_id \in message_ids /\ m.state = "deleted"
               => delete[m.message_id] # OK
       /\ requests' = ExpireRows(requests, expired_requests, now)
       /\ adminChat' =
            { IF m.message_id \in message_ids /\ delete[m.message_id] = OK
                THEN [m EXCEPT !.state = "deleted"] ELSE m : m \in adminChat }
       /\ last' = Event("sweep", NULL, NULL, NULL, "expired",
                        IF \E i \in message_ids : delete[i] # OK
                          THEN "delete_message" ELSE "none",
                        ExpirySent(expired_requests, delete), NULLTEXT)
    /\ UNCHANGED << button, sweepRows, decisionsSent, requestSeq, users, conversation, user_data,
                    promptShown, messageSeq, now, scenario >>

(***************************************************************************)
(* The environment.                                                        *)
(***************************************************************************)
Tick ==
    /\ Ready
    /\ now + TickHours <= MaxTime
    /\ now' = now + TickHours
    /\ UNCHANGED << button, sweepRows, decisionsSent, requests, requestSeq, users, conversation,
                    user_data, promptShown, adminChat, messageSeq,
                    scenario, last >>

\* The process restarts: the tables and the chats stay, the conversations
\* and user_data are lost.
Restart ==
    /\ Ready
    /\ conversation' = [u \in Applicants |-> END]
    /\ user_data' = [u \in Applicants |-> EmptyUserData]
    /\ scenario' = [u \in Applicants |-> OffScenario]
    /\ UNCHANGED << button, sweepRows, decisionsSent, requests, requestSeq, users, promptShown,
                    adminChat, messageSeq, now, last >>

\* The handler has returned (or raised into error_handler) and the
\* application waits for the next update.
UpdateProcessed ==
    /\ ~Ready
    /\ last' = Idle
    /\ UNCHANGED << button, sweepRows, decisionsSent, requests, requestSeq, users, conversation,
                    user_data, promptShown, adminChat, messageSeq, now, scenario >>

Next ==
    \/ \E u \in Applicants, profile \in Profiles,
          chat_member \in ChatMemberStatuses, r \in CallOutcomes :
            StartCommand(u, profile, chat_member, r)
    \/ \E u \in Applicants : StartIgnored(u)
    \/ \E u \in Applicants, k \in PressedKeys, a \in CallOutcomes,
          e \in CallOutcomes :
            HandleOptionSelection(u, k, a, e)
    \/ \E u \in Applicants, a \in CallOutcomes, r \in CallOutcomes :
            HandleBackButton(u, a, r)
    \/ \E u \in Applicants, text \in Answers, r \in CallOutcomes :
            HandleExplanation(u, text, r)
    \/ \E u \in Applicants, text \in Answers, r \in CallOutcomes :
            HandleAnswer(u, text, r)
    \/ \E u \in Applicants, a \in CallOutcomes, s \in CallOutcomes,
          e \in CallOutcomes :
            HandleCompleteApplication(u, a, s, e)
    \/ \E u \in Applicants, r \in CallOutcomes : CancelApplication(u, r)
    \/ \E u \in Applicants, a \in CallOutcomes : HandleGeneralCallback(u, a)
    \/ \E u \in Applicants, profile \in Profiles, reply \in CallOutcomes : AddCommand(u, profile, reply)
    \/ \E m \in adminChat, o \in ApproveOutcomes :
            ApproveRequest(m, o.answer_query, o.join, o.link, o.delete,
                           o.send_admin, o.send_user, o.send_note)
    \/ \E m \in adminChat, o \in DeclineOutcomes :
            DeclineRequest(m, o.answer_query, o.join, o.delete, o.send_admin,
                           o.send_user)
    \/ \E chat_member \in ChatMemberStatuses, has_text \in BOOLEAN,
          outcome \in [Applicants -> SafeSendOutcomes] :
            BroadcastMessage(chat_member, has_text, outcome)
    \/ \E chat_member \in ChatMemberStatuses : UserStats(chat_member)
    \/ \E delete \in [1..MaxMessages -> CallOutcomes] :
            CheckExpiredRequests(delete)
    \/ Tick
    \/ Restart
    \/ UpdateProcessed

Spec == Init /\ [][Next]_vars

(***************************************************************************)
(* The expiry sweep hour by hour: one stored request of any status, created *)
(* at hour 0, and the sweep run at every hour around the cutoff.           *)
(***************************************************************************)
\* The request of the applicant as the handlers leave it: pending, posted to
\* the moderator channel as message 1 once submitted; expired by the sweep;
\* approved or declined by a press on message 1.
StoredRequest(u, profile, status, submitted) ==
    LET created == RequestCreate({}, 0, u, profile, 0)
        posted == IF submitted
                    THEN UpdateStatus(created, 1, REQUEST_STATUS_PENDING, 1, 0)
                    ELSE created
    IN
    IF status = REQUEST_STATUS_PENDING THEN posted
    ELSE IF status = REQUEST_STATUS_EXPIRED
      THEN ExpireRows(posted, FetchAll(posted), 0)
    ELSE IF status = REQUEST_STATUS_APPROVED
      THEN ApprovedRequests(posted, 1, 1, 0)
      ELSE DeclinedRequests(posted, 1, 1, 0)

InitExpiry ==
    /\ \E u \in Applicants, profile \in Profiles, status \in Statuses,
          submitted \in BOOLEAN :
          /\ status \in {REQUEST_STATUS_APPROVED, REQUEST_STATUS_DECLINED}
                => submitted
          /\ requests = StoredRequest(u, profile, status, submitted)
          /\ users = IF status = REQUEST_STATUS_APPROVED
                       THEN ApprovedUsers({}, FetchOne(requests), 0)
                       ELSE {}
          /\ adminChat =
                IF submitted
                  THEN {[request_id |-> 1, message_id |-> 1,
                         state |-> IF status = REQUEST_STATUS_PENDING
                                     THEN "buttons" ELSE "deleted"]}
                  ELSE {}
          /\ messageSeq = IF submitted THEN 1 ELSE 0
    /\ requestSeq = 1
    /\ conversation = [u \in Applicants |-> END]
    /\ user_data = [u \in Applicants |-> EmptyUserData]
    /\ promptShown = {}
    /\ now = 0
    /\ scenario = [u \in Applicants |-> OffScenario]
    /\ decisionsSent = [id \in 1..MaxRequests |-> 0]
    /\ sweepRows = << >>
    /\ button = NoButton
    /\ last = Idle

\* An hour passes (datetime.now() of the next sweep is an hour later).
HourPasses ==
    /\ Ready
    /\ now < MaxHour
    /\ now' = now + 1
    /\ UNCHANGED << button, sweepRows, decisionsSent, requests, requestSeq, users, conversation,
                    user_data, promptShown, adminChat, messageSeq,
                    scenario, last >>

NextExpiry ==
    \/ \E delete \in [1..MaxMessages -> CallOutcomes] :
            CheckExpiredRequests(delete)
    \/ HourPasses
    \/ UpdateProcessed

SpecExpiry == InitExpiry /\ [][NextExpiry]_vars

(***************************************************************************)
(* The periodic sweep over two stored requests: the request of the         *)
(* applicant as above and the request of a second applicant, pending and   *)
(* never submitted, created in the same hour or an hour later.  The        *)
(* scheduler runs check_expired_requests every hour (IntervalTrigger), and *)
(* a sweep that has started returns: both are weakly fair.                 *)
(***************************************************************************)
\* The Telegram identity of the second applicant.
SecondApplicant == 102

InitSweep ==
    /\ \E u \in Applicants, profile \in Profiles, status \in Statuses,
          submitted \in BOOLEAN, t \in 0..1 :
          /\ status \in {REQUEST_STATUS_APPROVED, REQUEST_STATUS_DECLINED}
                => submitted
          /\ requests =
                RequestCreate(StoredRequest(u, profile, status, submitted),
                              1, SecondApplicant, profile, t)
          /\ users = IF status = REQUEST_STATUS_APPROVED
                       THEN ApprovedUsers({}, RequestGetById(requests, 1), 0)
                       ELSE {}
          /\ adminChat =
                IF submitted
                  THEN {[request_id |-> 1, message_id |-> 1,
                         state |-> IF status = REQUEST_STATUS_PENDING
                                     THEN "buttons" ELSE "deleted"]}
                  ELSE {}
          /\ messageSeq = IF submitted THEN 1 ELSE 0
    /\ requestSeq = 2
    /\ conversation = [u \in Applicants |-> END]
    /\ user_data = [u \in Applicants |-> EmptyUserData]
    /\ promptShown = {}
    /\ now = 1
    /\ scenario = [u \in Applicants |-> OffScenario]
    /\ decisionsSent = [id \in 1..MaxRequests |-> 0]
    /\ sweepRows = << >>
    /\ button = NoButton
    /\ last = Idle

SpecSweep ==
    /\ InitSweep
    /\ [][NextExpiry]_vars
    /\ WF_vars(\E delete \in [1..MaxMessages -> CallOutcomes] :
                    CheckExpiredRequests(delete))
    /\ WF_vars(UpdateProcessed)

(***************************************************************************)
(* The admin commands over the approved users of two applicants, each      *)
(* approved at hour 0 through a request of their own and possibly          *)
(* deactivated by an earlier broadcast.                                    *)
(***************************************************************************)
\* The people the bot has approved.
Recipients == Applicants \cup {SecondApplicant}

\* The users row of an approval at hour 0, deactivated or not.
ApprovedUserRow(user_id, profile, active) ==
    LET created == UsersUpsert({}, user_id, profile.username,
                               profile.first_name, profile.last_name, 0)
    IN IF active THEN created ELSE UsersDeactivate(created, user_id)

InitBroadcast ==
    /\ \E u \in Applicants, profile \in Profiles,
          approved \in SUBSET Recipients, active \in SUBSET Recipients :
          /\ active \subseteq approved
          /\ requests =
                ApprovedRequests(
                    RequestCreate(
                        StoredRequest(u, profile, REQUEST_STATUS_APPROVED, TRUE),
                        1, SecondApplicant, profile, 0),
                    2, 2, 0)
          /\ users = UNION { ApprovedUserRow(id, profile, id \in active)
                               : id \in approved }
    /\ requestSeq = 2
    /\ adminChat = { [request_id |-> i, message_id |-> i, state |-> "deleted"]
                      : i \in 1..2 }
    /\ messageSeq = 2
    /\ conversation = [u \in Applicants |-> END]
    /\ user_data = [u \in Applicants |-> EmptyUserData]
    /\ promptShown = {}
    /\ now = 0
    /\ scenario = [u \in Applicants |-> OffScenario]
    /\ decisionsSent = [id \in 1..MaxRequests |-> 0]
    /\ sweepRows = << >>
    /\ button = NoButton
    /\ last = Idle

NextBroadcast ==
    \/ \E chat_member \in ChatMemberStatuses, has_text \in BOOLEAN,
          outcome \in [Recipients -> SafeSendOutcomes] :
            BroadcastMessage(chat_member, has_text, outcome)
    \/ \E chat_member \in ChatMemberStatuses : UserStats(chat_member)
    \/ Tick
    \/ UpdateProcessed

SpecBroadcast == InitBroadcast /\ [][NextBroadcast]_vars

(***************************************************************************)
(* The moderators' presses on a request that was submitted twice: the      *)
(* first Complete press posted message 1 and its confirming edit raised,   *)
(* so the session stayed open; the second posted message 2 and ended it.   *)
(* Both messages carry the Approve / Decline buttons of request 1.         *)
(***************************************************************************)
InitDecision ==
    /\ \E u \in Applicants, profile \in Profiles, text \in Answers :
          /\ requests =
                SubmittedRequests(
                    UpdateUserExplanation(
                        StoredRequest(u, profile, REQUEST_STATUS_PENDING, TRUE),
                        1, BuildExplanation("other", text)),
                    1, 2, 0)
          /\ user_data =
                [a \in Applicants |->
                    IF a = u
                      THEN [request_id |-> 1, selected_option |-> "other",
                            answer |-> text]
                      ELSE EmptyUserData]
          /\ promptShown = {u}
    /\ requestSeq = 1
    /\ users = {}
    /\ adminChat = { [request_id |-> 1, message_id |-> i, state |-> "buttons"]
                      : i \in 1..2 }
    /\ messageSeq = 2
    /\ conversation = [u \in Applicants |-> END]
    /\ now = 0
    /\ scenario = [u \in Applicants |-> OffScenario]
    /\ decisionsSent = [id \in 1..MaxRequests |-> 0]
    /\ sweepRows = << >>
    /\ button = NoButton
    /\ last = Idle

NextDecision ==
    \/ \E m \in adminChat, o \in ApproveOutcomes :
            ApproveRequest(m, o.answer_query, o.join, o.link, o.delete,
                           o.send_admin, o.send_user, o.send_note)
    \/ \E m \in adminChat, o \in DeclineOutcomes :
            DeclineRequest(m, o.answer_query, o.join, o.delete, o.send_admin,
                           o.send_user)
    \/ UpdateProcessed

SpecDecision == InitDecision /\ [][NextDecision]_vars

(***************************************************************************)
(* The sweep step by step.  check_expired_requests is a coroutine of the   *)
(* AsyncIOScheduler, run on the event loop that also runs the handlers: it *)
(* gives the loop away at each of its awaits (delete_message and the two   *)
(* send_message of a row), and a press that arrives meanwhile is handled   *)
(* before the sweep goes on.  The query and the write of the first row, and *)
(* the return of a row's last await and the write of the next row, have no *)
(* await between them.  Two applicants hold a pending request each, both   *)
(* posted to the moderator channel (messages 1 and 2) and both older than  *)
(* the timeout.                                                            *)
(***************************************************************************)
\* The write of the loop for one fetched row:
\* update_request_status(request["id"], "expired", request["admin_message_id"])
ExpireRow(table, request, t) ==
    UpdateStatus(table, request["id"], REQUEST_STATUS_EXPIRED,
                 request["admin_message_id"], t)

\* check_expired_requests from its start to its first await: the query
\* and, when it returned rows, the write of the first of them.
SweepBegins ==
    /\ sweepRows = << >>
    /\ LET expired_requests == GetExpiredRequests(requests, now) IN
       /\ expired_requests # << >>
       /\ sweepRows' = expired_requests
       /\ requests' = ExpireRow(requests, Head(expired_requests), now)
    /\ UNCHANGED << button, decisionsSent, requestSeq, users, conversation, user_data,
                    promptShown, adminChat, messageSeq, now, scenario, last >>

\* The awaits of the row written last return (delete is the outcome of
\* delete_message, every TelegramError being logged and passed over), and
\* the loop goes on to the write of the next fetched row, or ends.
SweepContinues(delete) ==
    /\ sweepRows # << >>
    /\ LET request == Head(sweepRows)
           remaining == Tail(sweepRows)
           message_id == request["admin_message_id"]
       IN
       /\ message_id = NULL => NotCalled(delete)
       /\ \A m \in adminChat :
             m.message_id = message_id /\ m.state = "deleted" => delete # OK
       /\ adminChat' =
            { IF m.message_id = message_id /\ delete = OK
                THEN [m EXCEPT !.state = "deleted"] ELSE m : m \in adminChat }
       /\ requests' = IF remaining = << >> THEN requests
                      ELSE ExpireRow(requests, Head(remaining), now)
       /\ sweepRows' = remaining
    /\ UNCHANGED << button, decisionsSent, requestSeq, users, conversation, user_data,
                    promptShown, messageSeq, now, scenario, last >>

InitInterleaved ==
    /\ \E u \in Applicants, profile \in Profiles, t \in 0..1 :
          requests =
              SubmittedRequests(
                  RequestCreate(
                      StoredRequest(u, profile, REQUEST_STATUS_PENDING, TRUE),
                      1, SecondApplicant, profile, t),
                  2, 2, t)
    /\ requestSeq = 2
    /\ users = {}
    /\ adminChat = { [request_id |-> i, message_id |-> i, state |-> "buttons"]
                      : i \in 1..2 }
    /\ messageSeq = 2
    /\ conversation = [u \in Applicants |-> END]
    /\ user_data = [u \in Applicants |-> EmptyUserData]
    /\ promptShown = {}
    /\ now = MaxHour
    /\ scenario = [u \in Applicants |-> OffScenario]
    /\ decisionsSent = [id \in 1..MaxRequests |-> 0]
    /\ sweepRows = << >>
    /\ button = NoButton
    /\ last = Idle

NextInterleaved ==
    \/ SweepBegins
    \/ \E delete \in CallOutcomes : SweepContinues(delete)
    \/ \E m \in adminChat, o \in ApproveOutcomes :
            ApproveRequest(m, o.answer_query, o.join, o.link, o.delete,
                           o.send_admin, o.send_user, o.send_note)
    \/ \E m \in adminChat, o \in DeclineOutcomes :
            DeclineRequest(m, o.answer_query, o.join, o.delete, o.send_admin,
                           o.send_user)
    \/ UpdateProcessed

SpecInterleaved == InitInterleaved /\ [][NextInterleaved]_vars

(***************************************************************************)
(* One application followed through its postings: the applicant's entry    *)
(* commands, texts, Complete presses and cancellations (and the presses    *)
(* that no conversation takes), the moderator channel handing out          *)
(* MaxPostings message ids.                                                *)
(***************************************************************************)
NextPosting ==
    \/ \E u \in Applicants, profile \in Profiles,
          chat_member \in ChatMemberStatuses, r \in CallOutcomes :
            StartCommand(u, profile, chat_member, r)
    \/ \E u \in Applicants, text \in Answers, r \in CallOutcomes :
            HandleExplanation(u, text, r)
    \/ \E u \in Applicants, text \in Answers, r \in CallOutcomes :
            HandleAnswer(u, text, r)
    \/ \E u \in Applicants, a \in CallOutcomes, s \in CallOutcomes,
          e \in CallOutcomes :
            HandleCompleteApplicationUpTo(u, a, s, e, MaxPostings)
    \/ \E u \in Applicants : StartIgnored(u)
    \/ \E u \in Applicants, r \in CallOutcomes : CancelApplication(u, r)
    \/ \E u \in Applicants, a \in CallOutcomes : HandleGeneralCallback(u, a)
    \/ UpdateProcessed

SpecPosting == Init /\ [][NextPosting]_vars

(***************************************************************************)
(* The buttons by themselves: the entry menu builds a button per key of    *)
(* the catalog, a submission builds the Approve and the Decline button of  *)
(* its request id, and the handler of a press reads the key or the id back *)
(* from the callback_data Telegram returns unchanged.                      *)
(***************************************************************************)
\* send_welcome_message builds the button of one catalog key.
BuildOptionButton(option_key) ==
    /\ button' = [NoButton EXCEPT !.kind = "option", !.key = option_key,
                                  !.data = OptionPayload(Characters(option_key))]
    /\ UNCHANGED << requests, requestSeq, users, conversation, user_data,
                    promptShown, adminChat, messageSeq, now, scenario,
                    decisionsSent, sweepRows, last >>

\* submit_to_admins builds the Approve or the Decline button of a request.
BuildDecisionButton(kind, request_id) ==
    /\ button' = [NoButton EXCEPT !.kind = kind, !.id = request_id,
                                  !.data = IF kind = "approve"
                                             THEN ApprovePayload(request_id)
                                             ELSE DeclinePayload(request_id)]
    /\ UNCHANGED << requests, requestSeq, users, conversation, user_data,
                    promptShown, adminChat, messageSeq, now, scenario,
                    decisionsSent, sweepRows, last >>

\* handle_option_selection reads the key from the pressed button.
ReadOption ==
    /\ button.kind = "option"
    /\ ~button.pressed
    /\ button' = [button EXCEPT !.pressed = TRUE,
                                !.option = OptionOfPayload(button.data)]
    /\ UNCHANGED << requests, requestSeq, users, conversation, user_data,
                    promptShown, adminChat, messageSeq, now, scenario,
                    decisionsSent, sweepRows, last >>

\* approve_request or decline_request reads the id from the pressed button.
ReadRequestId ==
    /\ button.kind \in {"approve", "decline"}
    /\ ~button.pressed
    /\ button' = [button EXCEPT !.pressed = TRUE,
                                !.request_id = RequestIdOfPayload(button.data)]
    /\ UNCHANGED << requests, requestSeq, users, conversation, user_data,
                    promptShown, adminChat, messageSeq, now, scenario,
                    decisionsSent, sweepRows, last >>

NextButton ==
    \/ \E option_key \in OptionKeys : BuildOptionButton(option_key)
    \/ \E kind \in {"approve", "decline"}, request_id \in 1..MaxPayloadId :
            BuildDecisionButton(kind, request_id)
    \/ ReadOption
    \/ ReadRequestId

SpecButton == Init /\ [][NextButton]_vars

(***************************************************************************)
(* Properties of the requests table, the approvals and the explanation.    *)
(* A property about one handler reads the step it took: the unprimed       *)
(* variables are the state the handler found, the primed ones the state it *)
(* left, and last' says which handler ran, for whom and what it sent.      *)
(***************************************************************************)
\* The rows of the requests table that belong to applicant u.
RowsOf(table, u) == { r \in table : r.user_id = u }

TerminalStatuses ==
    { REQUEST_STATUS_APPROVED, REQUEST_STATUS_DECLINED, REQUEST_STATUS_EXPIRED }

\* sub occurs in s.
Contains(s, sub) ==
    \E i \in 1..(Len(s) - Len(sub) + 1) : SubSeq(s, i, i + Len(sub) - 1) = sub

\* The explanation template of catalog category c with a in its slot,
\* written out.
TemplateApplied(c, a) ==
    CASE c = "couchsurfing" -> "Found through Couchsurfing. Account: " \o a
      [] c = "invited" -> "Invited by: " \o a
      [] c = "facebook" -> "Found through Facebook: " \o a
      [] c = "other" -> "Other: " \o a

\* What start_command must do when it meets a pending row of the caller.
PendingNoticeOnly(u) ==
    /\ requests' = requests
    /\ requestSeq' = requestSeq
    /\ last'.sent = {Msg(u, "PENDING_REQUEST_MSG")}
    /\ conversation'[u] = END

\* C1, as stated: whoever the applicant is, start_command run while the
\* applicant's row is pending creates no row, leaves the row as it is,
\* replies with the pending notice only and ends the session.
C1_PendingStartAsStated ==
    [][ (/\ Ready
         /\ last'.op = "start"
         /\ \E r \in RowsOf(requests, last'.user) : r.status = "pending")
        => PendingNoticeOnly(last'.user) ]_vars

\* C1, amended: for an applicant who is not an administrator of the
\* moderator channel, start_command run while the applicant's row is pending
\* creates no row, leaves the row as it is (id, status, explanation and
\* moderator message id included), replies with the pending notice only and
\* ends the session.
C1_PendingStartOfNonAdmin ==
    [][ (/\ Ready
         /\ last'.op = "start"
         /\ ~last'.is_admin
         /\ \E r \in RowsOf(requests, last'.user) : r.status = "pending")
        => PendingNoticeOnly(last'.user) ]_vars

\* start_command has answered a non-admin with the pending notice, the row
\* being one that was submitted already (explanation and moderator message
\* id set).
C1_PendingNoticeReached ==
    /\ last.op = "start"
    /\ last.path = "pending"
    /\ ~last.is_admin
    /\ \E r \in RowsOf(requests, last.user) :
          /\ r.id = last.request_id
          /\ r.status = "pending"
          /\ r.admin_message_id # NULL
          /\ r.user_explanation # NULLTEXT

\* C2: for a non-admin applicant whose row is approved, declined or expired,
\* start_command leaves exactly one row of the applicant; it is pending, its
\* id was never used before, and its explanation, approved_at and
\* admin_message_id are unset.
C2_ReapplyCreatesFreshPending ==
    [][ (/\ Ready
         /\ last'.op = "start"
         /\ ~last'.is_admin
         /\ \E r \in RowsOf(requests, last'.user) :
               r.status \in TerminalStatuses)
        => LET rows == RowsOf(requests', last'.user) IN
           /\ Cardinality(rows) = 1
           /\ \A r \in rows :
                 /\ r.status = "pending"
                 /\ r.id > requestSeq
                 /\ r.id \notin { q.id : q \in requests }
                 /\ r.user_explanation = NULLTEXT
                 /\ r.approved_at = NULL
                 /\ r.admin_message_id = NULL ]_vars

\* start_command has created a second row for an applicant who had been
\* approved (and so had an explanation, an approved_at and a moderator
\* message id on the first).
C2_ReapplyReached ==
    /\ last.op = "start"
    /\ last.path = "created"
    /\ last.request_id > 1
    /\ FoundUser(UsersGetById(users, last.user))

\* C3: in every reachable state the requests table holds one row at most
\* per applicant, hence one pending row at most.
C3_OneRowPerApplicant ==
    \A u \in Applicants : Cardinality(RowsOf(requests, u)) <= 1

\* An applicant's second request, made after the first expired, has been
\* approved: entry commands, a completion, a sweep and a press have run.
C3_SecondRequestSettled ==
    /\ requestSeq > 1
    /\ \E r \in requests :
          /\ r.id = requestSeq
          /\ r.status = REQUEST_STATUS_APPROVED
          /\ Cardinality(RowsOf(requests, r.user_id)) = 1

\* C4, as stated: once a row is approved, declined or expired, no step
\* changes its status again.
C4_TerminalStatusIsFinal ==
    [][ \A r \in requests :
          r.status \in TerminalStatuses
            => \A q \in requests' : q.id = r.id => q.status = r.status ]_vars

\* C5: after an Approve press that succeeded, by the direct grant or by the
\* invite link, the request is approved, its approved_at is set, and an
\* active row of the users table holds the applicant's id with the name
\* fields of the request.
C5_ApprovedAfterApprove ==
    (/\ last.op = "approve"
     /\ last.path \in {"direct", "link"}
     /\ last.failed = "none")
    => LET request == RequestGetById(requests, last.request_id) IN
       /\ Found(request)
       /\ request.status = REQUEST_STATUS_APPROVED
       /\ request.approved_at # NULL
       /\ \E user \in users :
             /\ user.user_id = request.user_id
             /\ user.is_active
             /\ user.username = request.username
             /\ user.first_name = request.first_name
             /\ user.last_name = request.last_name

\* An Approve press has succeeded through the invite link.
C5_ApprovedByLinkReached ==
    /\ last.op = "approve"
    /\ last.path = "link"
    /\ last.failed = "none"
    /\ last.user \in Applicants

\* C6: a Decline press that succeeds writes declined on the request and
\* leaves the users table as it was.
C6_DeclineLeavesUsers ==
    [][ (/\ last'.op = "decline"
         /\ last'.path = "declined"
         /\ last'.failed = "none")
        => /\ users' = users
           /\ \E r \in requests' :
                 /\ r.id = last'.request_id
                 /\ r.status = REQUEST_STATUS_DECLINED ]_vars

\* A Decline press has succeeded for an applicant who holds a row of the
\* users table from an earlier approval.
C6_DeclineWithUserReached ==
    /\ last.op = "decline"
    /\ last.path = "declined"
    /\ last.failed = "none"
    /\ \E user \in users : user.user_id = last.user

\* C7: when Complete is handled with category c and answer a in the session
\* (the defaults "unknown" and "" where the session holds none), the
\* explanation written on the session's row and handed to the moderator
\* channel is c's template with a in its slot if c is in the catalog, and
\* otherwise a text that contains c and a as they are.
C7_ExplanationFromTemplate ==
    (/\ last.op = "complete"
     /\ last.path \in {"submitted", "not_delivered"})
    => LET c == Get(user_data[last.user].selected_option, "unknown")
           a == Get(user_data[last.user].answer, "")
           row == RequestGetById(requests, last.request_id)
       IN
       /\ Found(row)
       /\ row.user_id = last.user
       /\ row.user_explanation = last.explanation
       /\ IF c \in {"couchsurfing", "invited", "facebook", "other"}
            THEN last.explanation = TemplateApplied(c, a)
            ELSE Contains(last.explanation, c) /\ Contains(last.explanation, a)

\* Complete has been handled in a session that holds no category, and the
\* application reached the moderator channel.
C7_FallbackReached ==
    /\ last.op = "complete"
    /\ last.path = "submitted"
    /\ user_data[last.user].selected_option = ABSENT

\* C8, as stated: in a session begun by start_command, the applicant who
\* pressed category c, then sent the text a, then pressed Complete has the
\* moderator channel receive the explanation c's template makes of a.
C8_ScenarioExplanation ==
    (/\ last.op = "complete"
     /\ last.path = "submitted"
     /\ scenario[last.user].stage = "completed")
    => last.explanation =
         TemplateApplied(scenario[last.user].option, scenario[last.user].answer)

\* C9, as stated: when the direct grant of an Approve press fails at one of
\* its steps with an error other than the missing join request, the
\* approve-failed note naming the applicant is sent to the moderator channel
\* and the request's status is what it was before the press.
C9_DirectFailureLeavesStatus ==
    [][ (/\ last'.op = "approve"
         /\ last'.path = "direct"
         /\ last'.failed # "none")
        => /\ \E n \in last'.sent :
                 /\ n.chat = ADMIN_CHAT_ID
                 /\ n.text = "ERROR_APPROVE_FAILED"
                 /\ n.about = last'.user
           /\ \A r \in requests : \A q \in requests' :
                 (r.id = last'.request_id /\ q.id = r.id)
                   => q.status = r.status ]_vars

\* C10: when create_chat_invite_link fails in the fallback grant, the
\* invite-link-failed note with the applicant's id and the error is sent to
\* the moderator channel, no status of the requests table changes (a pending
\* request stays pending) and the users table is as it was.
C10_LinkFailureLeavesTables ==
    [][ (/\ last'.op = "approve"
         /\ last'.path = "link"
         /\ last'.failed = "create_chat_invite_link")
        => /\ \E n \in last'.sent :
                 /\ n.chat = ADMIN_CHAT_ID
                 /\ n.text = "ERROR_INVITE_LINK_FAILED"
                 /\ n.about = last'.user
                 /\ n.error = TelegramError
           /\ \A r \in requests : \E q \in requests' :
                 q.id = r.id /\ q.status = r.status
           /\ users' = users ]_vars

\* The link could not be created for a pending request of an applicant who
\* holds no row of the users table.
C10_LinkFailureReached ==
    /\ last.op = "approve"
    /\ last.path = "link"
    /\ last.failed = "create_chat_invite_link"
    /\ \E r \in requests :
          r.id = last.request_id /\ r.status = REQUEST_STATUS_PENDING
    /\ \A user \in users : user.user_id # last.user

\* C11: on a Decline press, the membership authority's answer that there is
\* no such join request is passed over and the request is written declined;
\* any other error of its decline call leaves the request's status as it
\* was, and the decline-failed note for the applicant goes to the moderator
\* channel.
C11_DeclineAuthorityErrors ==
    [][ /\ (last'.op = "decline" /\ last'.join = JoinRequestMissing)
            => \E r \in requests' :
                  /\ r.id = last'.request_id
                  /\ r.status = REQUEST_STATUS_DECLINED
        /\ (last'.op = "decline" /\ last'.join = TelegramError)
            => /\ \A r \in requests : \A q \in requests' :
                     (r.id = last'.request_id /\ q.id = r.id)
                       => q.status = r.status
               /\ \E n \in last'.sent :
                     /\ n.chat = ADMIN_CHAT_ID
                     /\ n.text = "ERROR_DECLINE_FAILED"
                     /\ n.about = last'.user
                     /\ n.error = TelegramError ]_vars

\* A Decline press has gone through although the membership authority knew
\* no join request of the applicant.
C11_DeclineWithoutJoinRequestReached ==
    /\ last.op = "decline"
    /\ last.join = JoinRequestMissing
    /\ last.path = "declined"
    /\ last.failed = "none"

\* C12: a broadcast or stats command of a caller whom the moderator channel
\* reports as no administrator, or about whom the lookup fails, sends
\* nothing to a user, writes neither table, and answers the caller with the
\* admin-only notice alone.
C12_NonAdminCommandsDoNothing ==
    [][ (/\ Ready
         /\ last'.op \in {"broadcast", "stats"}
         /\ ~last'.is_admin)
        => /\ users' = users
           /\ requests' = requests
           /\ last'.sent = {Msg(NULL, "ADMIN_ONLY_COMMAND")} ]_vars

\* A caller who is no administrator has sent /broadcast while an approved
\* user was active.
C12_NonAdminBroadcastReached ==
    /\ last.op = "broadcast"
    /\ ~last.is_admin
    /\ last.path = "not_admin"
    /\ \E user \in users : user.is_active

\* C13, as stated: in a broadcast, an active recipient is deactivated exactly
\* when the send to that recipient fails with Forbidden; one whose send
\* succeeds or fails with a NetworkError or TimedOut stays active.
C13_DeactivatedOnlyWhenBlocked ==
    [][ (Ready /\ last'.op = "broadcast")
        => \A n \in last'.sent : \A user \in users :
              (n.text = "BROADCAST" /\ user.user_id = n.chat /\ user.is_active)
                => ((\E after \in users' :
                        after.user_id = user.user_id /\ ~after.is_active)
                    <=> n.error = Forbidden) ]_vars

\* C15: after a self-registration (/add) the users table holds exactly one
\* row for the caller, active and carrying the names of the call; the reply
\* is the welcome text when the caller had no active row before the call and
\* the already-registered text when they had one.
C15_SelfRegistrationUpserts ==
    [][ (Ready /\ last'.op = "add")
        => LET rows == { r \in users' : r.user_id = last'.user } IN
           /\ Cardinality(rows) = 1
           /\ \A r \in rows :
                 /\ r.is_active
                 /\ r.username = last'.profile.username
                 /\ r.first_name = last'.profile.first_name
                 /\ r.last_name = last'.profile.last_name
           /\ \A n \in last'.sent :
                 n.text = IF FoundUser(UsersGetById(users, last'.user))
                            THEN "ADD_ALREADY_REGISTERED"
                            ELSE "ADD_WELCOME" ]_vars

\* C14: a deactivated user stays inactive, and gets no broadcast, until the
\* next upsert for the same identity, by an approval or by a
\* self-registration (/add); after that upsert there is exactly one row for
\* the identity and it is active.
C14_InactiveUntilUpsert ==
    [][ Ready
        => \A r \in users :
             ~r.is_active
               => LET after == { q \in users' : q.user_id = r.user_id }
                      approved == /\ last'.op = "approve"
                                  /\ last'.path \in {"direct", "link"}
                                  /\ last'.failed \notin
                                        {"approve_chat_join_request",
                                         "create_chat_invite_link"}
                      upserted == /\ last'.user = r.user_id
                                  /\ (approved \/ last'.op = "add")
                  IN
                  /\ ~upserted
                       => /\ after = {r}
                          /\ last'.op = "broadcast"
                               => \A n \in last'.sent : n.chat # r.user_id
                  /\ upserted
                       => /\ Cardinality(after) = 1
                          /\ \A q \in after : q.is_active ]_vars

\* C16: at every hour the sweep's candidate set holds exactly the pending
\* rows created at or before the cutoff (now - timeout): a pending row
\* created exactly at the cutoff is in it, a pending row created after the
\* cutoff and a row of any other status are not.
C16_BoundaryInclusive ==
    \A r \in requests :
        (\E i \in DOMAIN GetExpiredRequests(requests, now) :
            GetExpiredRequests(requests, now)[i].id = r.id)
          <=> /\ r.status = REQUEST_STATUS_PENDING
              /\ r.created_at <= now - REQUEST_TIMEOUT_HOURS

\* C17: when a cancelled or interrupted conversation has left a pending row
\* that was never submitted, the applicant's next /start overwrites it with
\* a fresh pending request and opens a session at the category menu.
C17_StartSupersedesPending ==
    [][ (/\ Ready
         /\ last'.op = "start"
         /\ ~last'.is_admin
         /\ \E r \in requests : /\ r.user_id = last'.user
                                 /\ r.status = REQUEST_STATUS_PENDING
                                 /\ r.admin_message_id = NULL)
        => /\ \E q \in requests' : /\ q.user_id = last'.user
                                    /\ q.status = REQUEST_STATUS_PENDING
                                    /\ q.id = requestSeq + 1
           /\ conversation'[last'.user] = WAITING_FOR_EXPLANATION
           /\ last'.sent = {Msg(last'.user, "WELCOME_TEXT")} ]_vars

\* C18: /start from a caller who is an admin of the moderator channel shows
\* the admin panel and leaves the caller without a session; no request row
\* is created or modified, whatever request the caller has.
C18_AdminStartTouchesNoRequest ==
    [][ (Ready /\ last'.op = "start" /\ last'.is_admin)
        => /\ requests' = requests
           /\ requestSeq' = requestSeq
           /\ last'.sent = {Msg(last'.user, "ADMIN_PANEL_MESSAGE")}
           /\ conversation'[last'.user] = END ]_vars

\* C18 witness: an admin's /start answered with the panel while a pending
\* request of that caller is stored.
C18_AdminStartWithPendingReached ==
    /\ last.op = "start"
    /\ last.is_admin
    /\ last.path = "admin"
    /\ \E r \in requests : /\ r.user_id = last.user
                            /\ r.status = REQUEST_STATUS_PENDING

\* C19: a category press taken in WAITING_FOR_EXPLANATION records the
\* pressed category and leaves the session in WAITING_FOR_ANSWER.
C19_OptionPressMovesToAnswer ==
    [][ (/\ Ready
         /\ last'.op = "option"
         /\ last'.path = "question"
         /\ conversation[last'.user] = WAITING_FOR_EXPLANATION)
        => /\ user_data'[last'.user].selected_option \in PressedKeys
           /\ conversation'[last'.user] = WAITING_FOR_ANSWER ]_vars

\* C20: a Back press in either state removes the category and the answer
\* from the session memory, shows the entry menu again and leaves the
\* session in WAITING_FOR_EXPLANATION.
C20_BackResetsSession ==
    [][ (Ready /\ last'.op = "back" /\ last'.path = "menu")
        => /\ user_data'[last'.user].selected_option = ABSENT
           /\ user_data'[last'.user].answer = ABSENT
           /\ last'.sent = {Msg(last'.user, "WELCOME_TEXT")}
           /\ conversation'[last'.user] = WAITING_FOR_EXPLANATION ]_vars

C22_AcknowledgementFailureCarriesOn ==
    [][ (/\ last'.op \in {"option", "back", "complete", "approve", "decline"}
         /\ last'.failed = "answer")
        => /\ last'.sent # {}
           /\ last'.op = "option"
                => user_data'[last'.user].selected_option \in PressedKeys
           /\ last'.op \in {"approve", "decline"}
                => \A r \in requests :
                     r.id = last'.request_id
                       => \E q \in requests' :
                            /\ q.id = r.id
                            /\ q.status = IF last'.op = "approve"
                                             THEN REQUEST_STATUS_APPROVED
                                             ELSE REQUEST_STATUS_DECLINED ]_vars

\* C23: an invitation link is made only inside an Approve press whose
\* direct grant failed because no join request exists; a press whose direct
\* grant succeeded or failed with any other error takes no link branch and
\* sends no link.
C23_LinkOnlyAfterMissingJoinRequest ==
    [][ /\ (last'.path = "link"
              \/ \E n \in last'.sent :
                    n.text \in {"user_approved_with_link",
                                "admin_approved_link_sent",
                                "ERROR_INVITE_LINK_FAILED"})
            => last'.op = "approve" /\ last'.join = JoinRequestMissing
        /\ (last'.op = "approve" /\ last'.join \in {OK, TelegramError})
            => /\ last'.path = "direct"
               /\ (last'.join = TelegramError)
                    <=> (last'.failed = "approve_chat_join_request") ]_vars

\* C23 witness: an Approve press that met the missing join request, made
\* the link and sent it to the applicant.
C23_LinkSentReached ==
    /\ last.op = "approve"
    /\ last.join = JoinRequestMissing
    /\ last.path = "link"
    /\ \E n \in last.sent : n.chat = last.user /\ n.text = "user_approved_with_link"

C25_SecondPressReexecutes ==
    [][ \A r \in requests :
          (/\ r.status \in {REQUEST_STATUS_APPROVED, REQUEST_STATUS_DECLINED}
           /\ last'.op \in {"approve", "decline"}
           /\ last'.request_id = r.id
           /\ last'.failed # "answer")
            => /\ last'.path \in {"direct", "link", "declined", "refused"}
               /\ last'.join # "none"
               /\ last'.failed \notin {"approve_chat_join_request",
                                        "create_chat_invite_link",
                                        "decline_chat_join_request"}
                    => \E q \in requests' :
                         /\ q.id = r.id
                         /\ q.status = IF last'.op = "approve"
                                          THEN REQUEST_STATUS_APPROVED
                                          ELSE REQUEST_STATUS_DECLINED
               /\ last'.failed = "none"
                    => \E n \in last'.sent :
                         /\ n.chat = r.user_id
                         /\ n.text \in {"USER_APPROVED_DM",
                                         "user_approved_with_link",
                                         "USER_DECLINED_DM"} ]_vars

\* C25 witness: the applicant's chat holds two decision messages for one
\* request, the second of them with an invitation link.
C25_TwoDecisionsReached ==
    /\ last.op = "approve"
    /\ last.path = "link"
    /\ last.failed = "none"
    /\ decisionsSent[last.request_id] = 2

\* C26: a sweep asks the membership authority to decline the join request
\* of each request it expires, marks the row expired, and deletes a
\* moderator message and posts the expiry note only for a row that records
\* a moderator message id.
C26_SweepDeclinesAndExpires ==
    [][ (Ready /\ last'.op = "sweep")
        => /\ last'.join # "none"
           /\ \A r \in requests :
                 (/\ r.status = REQUEST_STATUS_PENDING
                  /\ r.created_at < now - REQUEST_TIMEOUT_HOURS)
                   => /\ \E q \in requests' :
                            q.id = r.id /\ q.status = REQUEST_STATUS_EXPIRED
                      /\ r.admin_message_id = NULL
                           => /\ Note("EXPIRED_NOTE", r.user_id, "none")
                                   \notin last'.sent
                              /\ adminChat' = adminChat ]_vars

\* C27: with the sweep run again and again, every request that has been
\* pending for longer than the timeout is eventually marked expired, be it
\* posted to the moderator channel or not, and whatever the deletion of its
\* message or of another request's message answers.
C27_StalePendingEventuallyExpired ==
    \A id \in 1..MaxRequests :
        (\E r \in requests :
            /\ r.id = id
            /\ r.status = REQUEST_STATUS_PENDING
            /\ r.created_at < now - REQUEST_TIMEOUT_HOURS)
          ~> (\E r \in requests :
                 r.id = id /\ r.status = REQUEST_STATUS_EXPIRED)

\* C27 witness: a sweep whose deletion of the moderator message failed has
\* marked both the posted and the never-posted request expired.
C27_BothExpiredReached ==
    /\ last.op = "sweep"
    /\ last.failed = "delete_message"
    /\ \E r \in requests : /\ r.status = REQUEST_STATUS_EXPIRED
                            /\ r.admin_message_id # NULL
    /\ \E r \in requests : /\ r.status = REQUEST_STATUS_EXPIRED
                            /\ r.admin_message_id = NULL
                            /\ r.user_id = SecondApplicant

\* C28: a broadcast that comes to its summary has sent to every user that
\* was active when it started and to no other; last_contacted_at is the
\* time of the broadcast for the recipients whose delivery succeeded and is
\* left as it was for every other row; the summary counts one attempt per
\* active user: successful + failed = total = the number of active users.
C28_BroadcastReachesActiveUsersOnce ==
    [][ (Ready /\ last'.op = "broadcast" /\ last'.path = "summary")
        => LET active == { r \in users : r.is_active }
               attempts == { n \in last'.sent : n.text = "BROADCAST" }
               delivered == { n.chat : n \in { a \in attempts :
                                                  a.error = "none" } }
           IN
           /\ { n.chat : n \in attempts } = { r.user_id : r \in active }
           /\ Cardinality(attempts) = Cardinality(active)
           /\ \A r \in users :
                 \E q \in users' :
                    /\ q.user_id = r.user_id
                    /\ q.last_contacted_at =
                         IF r.user_id \in delivered THEN now
                         ELSE r.last_contacted_at
           /\ \E n \in last'.sent :
                 /\ n.text = "broadcast_summary"
                 /\ n.successful_sends = Cardinality(delivered)
                 /\ n.successful_sends + n.failed_sends = n.total_users
                 /\ n.total_users = Cardinality(active) ]_vars

\* C28 witness: a broadcast over two active users, one delivered and one
\* failed, at a time when an inactive row could be told from them.
C28_MixedBroadcastReached ==
    /\ last.op = "broadcast"
    /\ last.path = "summary"
    /\ \E n \in last.sent : /\ n.text = "broadcast_summary"
                             /\ n.successful_sends = 1
                             /\ n.failed_sends = 1
    /\ \E r \in users : r.last_contacted_at = now /\ now > 0
    /\ \E r \in users : r.last_contacted_at = NULL

\* C29: a category, Back or Complete press is taken by its conversation
\* handler only when the applicant has a session; without one it is answered
\* with the not-available notice, and that answer changes neither the
\* session memory nor a row of either table.
C29_PressWithoutSessionChangesNothing ==
    [][ /\ (Ready /\ last'.op \in {"option", "back", "complete"})
            => conversation[last'.user] \in
                 {WAITING_FOR_EXPLANATION, WAITING_FOR_ANSWER}
        /\ (Ready /\ last'.op = "callback")
            => /\ conversation[last'.user] = END
               /\ last'.sent = {Msg(last'.user, "ACTION_NOT_AVAILABLE")}
               /\ user_data' = user_data
               /\ conversation' = conversation
               /\ requests' = requests
               /\ users' = users ]_vars

\* C29 witness: a press answered with the notice after the applicant
\* cancelled, the request id still in the session memory and the row
\* pending.
C29_PressAfterCancelReached ==
    /\ last.op = "callback"
    /\ last.path = "not_available"
    /\ user_data[last.user].request_id # NULL
    /\ \E r \in requests : /\ r.id = user_data[last.user].request_id
                            /\ r.status = REQUEST_STATUS_PENDING
                            /\ r.admin_message_id = NULL

\* C30: a request becomes approved only in an Approve press on it in which
\* the membership authority accepted the direct grant or, the join request
\* being missing, the invitation link was created; no request is approved
\* to begin with, so every approved row has been through such a press.
C30_ApprovedOnlyAfterGrant ==
    [][ \A q \in requests' :
          (/\ q.status = REQUEST_STATUS_APPROVED
           /\ ~\E r \in requests :
                  r.id = q.id /\ r.status = REQUEST_STATUS_APPROVED)
            => /\ last'.op = "approve"
               /\ last'.request_id = q.id
               /\ \/ last'.join = OK
                  \/ /\ last'.join = JoinRequestMissing
                     /\ last'.path = "link"
                     /\ last'.failed # "create_chat_invite_link" ]_vars

\* C30 witness: a request approved by a press whose direct grant was
\* accepted and whose later call failed.
C30_GrantedThenFailedReached ==
    /\ last.op = "approve"
    /\ last.join = OK
    /\ last.failed = "delete_message"
    /\ \E r \in requests : /\ r.id = last.request_id
                            /\ r.status = REQUEST_STATUS_APPROVED

\* C31, as stated: a write of the sweep leaves every request that a
\* moderator has approved or declined with that decision: the sweep writes
\* expired only on rows that are pending when it writes, also when the
\* decision came between the sweep's query and its write for the row.
C31_SweepKeepsDecisions ==
    [][ sweepRows' # sweepRows
        => \A r \in requests :
              r.status \in {REQUEST_STATUS_APPROVED, REQUEST_STATUS_DECLINED}
                => \E q \in requests' : q.id = r.id /\ q.status = r.status ]_vars

\* C32, as stated: a Complete press writes the explanation and the
\* moderator message id of the session's request and nothing else: the
\* status of the row after the press is its status before, also when the
\* row was expired or decided while the session was open.
C32_CompleteKeepsStatus ==
    [][ (/\ Ready
         /\ last'.op = "complete"
         /\ last'.path \in {"submitted", "not_delivered"})
        => \A r \in requests :
              r.id = last'.request_id
                => \E q \in requests' : q.id = r.id /\ q.status = r.status ]_vars

\* C33, as stated: what Complete submits was recorded in the current
\* session.  In a session that has gone from the entry command straight to
\* Complete the session memory holds no category and no answer, and in one
\* that has gone from the entry command through a category press to
\* Complete it holds no answer: nothing a former session recorded is there
\* to be turned into the explanation.
C33_SubmittedFromCurrentSession ==
    [][ (/\ Ready
         /\ last'.op = "complete"
         /\ last'.path \in {"submitted", "not_delivered"})
        => /\ scenario[last'.user].stage = "started"
                => /\ user_data[last'.user].selected_option = ABSENT
                   /\ user_data[last'.user].answer = ABSENT
           /\ scenario[last'.user].stage = "pressed"
                => user_data[last'.user].answer = ABSENT ]_vars

\* C34, as stated: for every request id the moderator channel holds at most
\* one application message with the Approve / Decline buttons of that id.
C34_OnePostingPerRequest ==
    \A id \in 1..MaxRequests :
        Cardinality({ m \in adminChat : m.request_id = id }) <= 1

\* C35: request ids are never reused: the id handed out by an entry command
\* is greater than every id handed out before (the ids of the rows, of the
\* posted messages and the last one handed out), and it is the id of the
\* caller's new row.  So an Approve or Decline press that carries the id of
\* a row that is no longer there finds no row: it writes neither table,
\* does not ask the membership authority and, unless its acknowledgement
\* failed, answers with the not-found text only.
C35_ReplacedIdFindsNothing ==
    [][ /\ requestSeq' >= requestSeq
        /\ \A q \in requests' : q.id <= requestSeq'
        /\ \A m \in adminChat' : m.request_id <= requestSeq'
        /\ (Ready /\ last'.op = "start" /\ last'.path = "created")
             => /\ last'.request_id > requestSeq
                /\ \A r \in requests : r.id < last'.request_id
                /\ \A m \in adminChat : m.request_id < last'.request_id
                /\ \E q \in requests' :
                      q.id = last'.request_id /\ q.user_id = last'.user
                /\ \A q \in requests' :
                      q.id = last'.request_id \/ q \in requests
        /\ (/\ last'.op \in {"approve", "decline"}
            /\ ~\E r \in requests : r.id = last'.request_id)
             => /\ requests' = requests
                /\ users' = users
                /\ last'.join = "none"
                /\ last'.failed # "answer"
                     => /\ last'.path = "not_found"
                        /\ last'.sent =
                             {Msg(ADMIN_CHAT_ID, "REQUEST_NOT_FOUND")} ]_vars

\* C35 witness: an Approve press on the message of a request that the
\* applicant's later entry command replaced was answered with not found,
\* the applicant's newer request being stored.
C35_ReplacedRequestPressedReached ==
    /\ last.op = "approve"
    /\ last.path = "not_found"
    /\ last.request_id < requestSeq
    /\ \E r \in requests : r.id = requestSeq /\ r.id > last.request_id
    /\ ~\E r \in requests : r.id = last.request_id

\* C36, as stated: an Approve press that posts the invite-link-failed note
\* and a Decline press that posts the decline-failed note leave the status
\* of the request and the users table as they were before the press.
C36_FailureNotesTruthful ==
    [][ (\/ /\ last'.op = "approve"
            /\ \E n \in last'.sent : n.text = "ERROR_INVITE_LINK_FAILED"
         \/ /\ last'.op = "decline"
            /\ \E n \in last'.sent : n.text = "ERROR_DECLINE_FAILED")
        => /\ users' = users
           /\ \A r \in requests :
                 r.id = last'.request_id
                   => \E q \in requests' :
                         q.id = r.id /\ q.status = r.status ]_vars

\* C37, as stated: a broadcast sent by an admin with a text, while at least
\* one user is active, ends with exactly one summary to the admin after a
\* delivery was attempted to every active user, whatever each delivery met
\* (success, timeout, a block, or any other error of the messenger).
C37_BroadcastAlwaysSummarises ==
    [][ (/\ Ready
         /\ last'.op = "broadcast"
         /\ last'.is_admin
         /\ last'.path # "no_message"
         /\ \E r \in users : r.is_active)
        => /\ Cardinality({ n \in last'.sent :
                              n.text = "broadcast_summary" }) = 1
           /\ \A r \in users :
                 r.is_active
                   => \E n \in last'.sent :
                         n.text = "BROADCAST" /\ n.chat = r.user_id ]_vars

\* C38: button payloads round-trip: what option selection reads from the
\* payload of the button of catalog key k is k, character for character,
\* and what the admin handlers read from the approve and the decline payload
\* of request id n is the number n.
C38_PayloadsRoundTrip ==
    button.pressed
      => /\ button.kind = "option"
              => button.option = Characters(button.key)
         /\ button.kind \in {"approve", "decline"}
              => button.request_id = button.id

\* C38 witness: the id of a request with three digits has been read back
\* from a decline button.
C38_ThreeDigitIdReadReached ==
    /\ button.kind = "decline"
    /\ button.pressed
    /\ Len(button.data) = 11
    /\ button.request_id = MaxPayloadId

=============================================================================
